---- MODULE Spec2Model ----
(***************************************************************************)
(* wail: the tailing engine (internal/tail) as a state machine.            *)
(*                                                                         *)
(* Bytes are numbers (LF = 10, CR = 13, NUL = 0, 97 = 'a', 98 = 'b').      *)
(* A byte sequence is a TLA+ sequence, so Go offset k is index k + 1.      *)
(* A file is known by its identity (what os.SameFile compares); the        *)
(* followed path holds one identity or none (0).                           *)
(***************************************************************************)
EXTENDS Integers, Sequences, FiniteSets, TLC

\* ------------------------------------------------------------------ bounds
\* Longest file or stream content.
MaxLen == 5
\* Largest configured count (Lines, Bytes).
MaxCount == 3
\* The read chunk (64 * 1024 in the source), scaled so that files larger
\* than one chunk, and lines that straddle chunks, fit within MaxLen.
chunkSize == 2
\* Follow: longest file, number of file identities, number of changes other
\* processes make to the files, longest run of ticks without a change.
MaxFileLen == 4
MaxFiles == 2
MaxOps == 3
MaxUnchanged == 2
\* The scanner's buffer, scaled down: bufio.MaxScanTokenSize (64 KiB) is the
\* first size of the buffer and maxLineSize (1 MiB) the largest; no input of
\* at most MaxLen bytes reaches maxLineSize.
MaxScanTokenSize == 2
maxLineSize == 6

\* ------------------------------------------------------- program constants
LF == 10
CR == 13
NUL == 0
\* readLastNLinesForward: the count used when Lines <= 0.
DefaultLines == 10

VARIABLES
    config,         \* TailerConfig
    files,          \* identity -> content, for the identities 1..Len(files)
    path,           \* identity at config.Path, 0 when the path does not exist
    cancelled,      \* ctx.Done() is closed
    ops,            \* number of changes other processes made to the files
    alive,          \* processExists(config.PID)
    input,          \* TailReader: the whole stream the reader will deliver
    buf,            \* tailReaderBytes: the ring buffer
    total,          \* tailReaderBytes: bytes read so far
    lrLines,        \* lineReader: the lines ReadLine has returned
    scanStart,      \* bufio.Scanner: offset of the first unconsumed byte
    scanEnd,        \* bufio.Scanner: offset just past the buffered data
    scanEOF,        \* bufio.Scanner: the source has reported io.EOF
    scanBase,       \* bufio.Scanner: offset in the source of the buffer's first byte
    scanBuf,        \* bufio.Scanner: len(s.buf)
    lrCalls,        \* history: ReadLine calls made after ReadLine returned an error
    pc,             \* where the tailer is in its code
    f,              \* identity behind the open handle, 0 when none is open
    startPos,       \* Tail, bytes mode: the offset computed from the stat
    lastPos,        \* Position: pos in Tail, lastPos in the follow loops
    output,         \* bytes written to the output writer
    err,            \* "none" while running, then "nil" or "error"
    lastSize,       \* followByName: last-known size
    lastFileInfo,   \* followByName: last-known identity, 0 for nil
    unchangedCount, \* followByName: ticks without a change
    currentSize,    \* followByName: the size the tick's stat returned
    info,           \* followByName: the identity the tick's stat returned
    call,           \* history: the entry point called, "Tail" or "TailReader"
    window,         \* history: the initial window read (file, size, position, output length)
    consumed,       \* history: identity -> the offsets of its present content that
                    \*   follow ticks have read
    truncated,      \* history: the identities truncated since Tail was called
    tickEvent,      \* history: what the current by-name tick detected
    tickMoved,      \* history: the checks of the current by-name tick changed Position
    wpc,            \* pollingWatcher: where Watch and its goroutine are
    wLastSize,      \* pollingWatcher: lastSize
    wEvt,           \* pollingWatcher: the event the goroutine is sending
    wChan,          \* pollingWatcher: the events channel, "none", "open" or "closed"
    wErr,           \* pollingWatcher: the error Watch returned
    wSeen,          \* history: what the last tick of the watcher observed
    wStart,         \* history: the size the stat at watch start returned
    wDelivered,     \* history: the events the consumer has received
    cargs,          \* runTail: the invocation (targets, which can be opened, flags)
    cpc,            \* runTail: where the invocation is
    seqIndex,       \* runTail: index of the target the sequential loop is at
    tpc,            \* per target: where its Tail call (and its Write) is
    writesLeft,     \* per target: Write calls its tailer has still to make
    mu,             \* runMultiFileFollow: holder of the mutex, 0 when free
    lastPrinted,    \* runMultiFileFollow: the shared lastPrinted
    cout,           \* the shared output: headers and chunks in order
    cerr,           \* the error stream: the targets reported
    ret,            \* what runTail returned
    numArg,         \* parseNumArg: the argument s, a sequence of characters
    parsed,         \* parseNumArg: what it returned
    disturbed       \* history: a file was truncated, renamed or replaced

envVars == <<files, path, cancelled, ops, alive>>
readerVars == <<input, buf, total>>
lineVars == <<lrLines, scanStart, scanEnd, scanEOF, scanBase, scanBuf, lrCalls>>
nameVars == <<lastSize, lastFileInfo, unchangedCount, currentSize, info>>
histVars == <<call, window, consumed, truncated, tickEvent, tickMoved, disturbed>>
watcherVars == <<wpc, wLastSize, wEvt, wChan, wErr, wSeen, wStart, wDelivered>>
cmdVars == <<cargs, cpc, seqIndex, tpc, writesLeft, mu, lastPrinted, cout, cerr, ret>>
argVars == <<numArg, parsed>>

\* The variables of one tailer and of the files it reads.
tailVars == <<config, envVars, readerVars, lineVars, pc, f, startPos, lastPos, output, err,
              nameVars, histVars>>

vars == <<tailVars, watcherVars, cmdVars, argVars>>

\* ----------------------------------------------------------------- helpers
Min(a, b) == IF a < b THEN a ELSE b
Max(a, b) == IF a > b THEN a ELSE b

\* data[from:] in Go terms (from is a Go offset; past the end gives nothing).
From(data, from) == SubSeq(data, from + 1, Len(data))

\* bytes.IndexByte: the Go offset of the first d in data, -1 when absent.
IndexByte(data, d) ==
    IF \E i \in 1..Len(data) : data[i] = d
    THEN (CHOOSE i \in 1..Len(data) :
              data[i] = d /\ \A j \in 1..(i - 1) : data[j] # d) - 1
    ELSE -1

\* A plausible slip: every trailing CR is stripped.
RECURSIVE StripEveryCR(_)
StripEveryCR(line) ==
    IF Len(line) > 0 /\ line[Len(line)] = CR
    THEN StripEveryCR(SubSeq(line, 1, Len(line) - 1))
    ELSE line

\* "Strip trailing \r if present".
StripCR(line) ==
    IF Len(line) > 0 /\ line[Len(line)] = CR
    THEN SubSeq(line, 1, Len(line) - 1)
    ELSE line

NoToken == [advance |-> 0, token |-> <<>>, ok |-> FALSE]

\* The split function of the newline reader.
scanLinesWithCRLF(data, atEOF) ==
    IF atEOF /\ Len(data) = 0 THEN NoToken
    ELSE LET i == IndexByte(data, LF) IN
         IF i >= 0
         THEN [advance |-> i + 1, token |-> StripCR(SubSeq(data, 1, i)), ok |-> TRUE]
         ELSE IF atEOF
              THEN [advance |-> Len(data), token |-> StripCR(data), ok |-> TRUE]
              ELSE NoToken

\* A plausible slip: data left at the end of the source is not a token.
makeScanDelimitedDropsRest(delim, data, atEOF) ==
    LET i == IndexByte(data, delim) IN
    IF i >= 0
    THEN [advance |-> i + 1, token |-> SubSeq(data, 1, i), ok |-> TRUE]
    ELSE [advance |-> 0, token |-> <<>>, ok |-> FALSE]

\* The split function of the reader with a custom delimiter.
makeScanDelimited(delim, data, atEOF) ==
    IF atEOF /\ Len(data) = 0 THEN NoToken
    ELSE LET i == IndexByte(data, delim) IN
         IF i >= 0
         THEN [advance |-> i + 1, token |-> SubSeq(data, 1, i), ok |-> TRUE]
         ELSE IF atEOF
              THEN [advance |-> Len(data), token |-> data, ok |-> TRUE]
              ELSE NoToken

\* newLineReader: the split function the configuration selects.
newLineReader(cfg, data, atEOF) ==
    IF cfg.ZeroTerminated
    THEN makeScanDelimited(NUL, data, atEOF)
    ELSE scanLinesWithCRLF(data, atEOF)

\* ReadLine called until io.EOF on a source that delivers data and then ends:
\* the scanner hands the split function the unread data, with atEOF once
\* the source has ended, and advances past each token.
RECURSIVE ReadLines(_, _)
ReadLines(cfg, data) ==
    LET r == newLineReader(cfg, data, TRUE) IN
    IF ~r.ok THEN <<>>
    ELSE <<r.token>> \o ReadLines(cfg, From(data, r.advance))

\* A plausible slip: every line is ended by a newline.
writeLineNewline(cfg, line) == line \o <<LF>>

\* writeLine: the line and then the delimiter of the mode.
writeLine(cfg, line) ==
    line \o (IF cfg.ZeroTerminated THEN <<NUL>> ELSE <<LF>>)

RECURSIVE writeLines(_, _)
writeLines(cfg, lines) ==
    IF lines = <<>> THEN <<>>
    ELSE writeLine(cfg, Head(lines)) \o writeLines(cfg, Tail(lines))

\* ------------------------------------------------------------ line windows
\* readLastNLinesForward: "n := t.config.Lines; if n <= 0 { n = 10 }".
RingSize(cfg) == IF cfg.Lines <= 0 THEN DefaultLines ELSE cfg.Lines

\* A plausible slip: the ring is read out from slot 0.
RingStartAtZero(count, n) == 0

\* "start := count % n": the slot of the oldest retained line.
RingStart(count, n) == count % n

\* The read loop: "ring[count%n] = line; count++" for each line in turn.
RECURSIVE RingFill(_, _, _, _)
RingFill(lines, ring, count, n) ==
    IF count = Len(lines) THEN ring
    ELSE RingFill(lines, [ring EXCEPT ![count % n] = lines[count + 1]],
                  count + 1, n)

\* readLastNLinesForward once ReadLine has returned all and then io.EOF: the
\* ring read out in order.
RingLines(cfg, all) ==
    LET n == RingSize(cfg)
        count == Len(all)
        ring == RingFill(all, [i \in 0..(n - 1) |-> <<>>], 0, n)
    IN  IF count <= n
        THEN [i \in 1..count |-> ring[i - 1]]
        ELSE [i \in 1..n |-> ring[(RingStart(count, n) + (i - 1)) % n]]

\* readLastNLinesForward on a reader that delivers data and then ends.
readLastNLinesForward(cfg, data) == RingLines(cfg, ReadLines(cfg, data))

\* The inner loop of readLastNLinesBackward: "for i := n - 1; i >= 0; i--",
\* counting delimiters; hit is the i at which the loop breaks, -1 if it runs out.
RECURSIVE CountBack(_, _, _, _, _)
CountBack(chunk, i, found, needed, delim) ==
    IF i < 0 THEN [found |-> found, hit |-> -1]
    ELSE IF chunk[i + 1] = delim
         THEN IF found + 1 >= needed
              THEN [found |-> found + 1, hit |-> i]
              ELSE CountBack(chunk, i - 1, found + 1, needed, delim)
         ELSE CountBack(chunk, i - 1, found, needed, delim)

\* The outer loop of readLastNLinesBackward: the offset the final forward
\* read starts from.
RECURSIVE BackwardPos(_, _, _, _, _)
BackwardPos(content, pos, found, needed, delim) ==
    IF ~(pos > 0 /\ found < needed) THEN pos
    ELSE LET readSize == Min(chunkSize, pos)
             p == pos - readSize
             r == CountBack(SubSeq(content, p + 1, p + readSize),
                            readSize - 1, found, needed, delim)
         IN  IF r.hit >= 0
             THEN BackwardPos(content, p + r.hit + 1, r.found, needed, delim)
             ELSE BackwardPos(content, p, r.found, needed, delim)

\* "linesNeeded := t.config.Lines + 1".
LinesNeeded(cfg) == cfg.Lines + 1

\* readLastNLinesBackward on a seekable file holding content.
readLastNLinesBackward(cfg, content) ==
    LET size == Len(content)
        delimiter == IF cfg.ZeroTerminated THEN NUL ELSE LF
    IN  IF size = 0 THEN <<>>
        ELSE IF size <= chunkSize THEN readLastNLinesForward(cfg, content)
        ELSE readLastNLinesForward(cfg,
                 From(content, BackwardPos(content, size, 0, LinesNeeded(cfg), delimiter)))

\* A plausible slip: "lineNum > t.config.Lines".
FromLineKeepsAfter(lineNum, n) == lineNum > n

\* readFromLineN: "if lineNum >= t.config.Lines".
FromLineKeeps(lineNum, n) == lineNum >= n

\* The loop of readFromLineN: "lineNum++; if keep { lines = append(lines, line) }".
RECURSIVE FromLineLoop(_, _, _)
FromLineLoop(all, lineNum, n) ==
    IF lineNum = Len(all) THEN <<>>
    ELSE (IF FromLineKeeps(lineNum + 1, n) THEN <<all[lineNum + 1]>> ELSE <<>>)
         \o FromLineLoop(all, lineNum + 1, n)

\* readFromLineN on a reader that delivers data and then ends.
readFromLineN(cfg, data) == FromLineLoop(ReadLines(cfg, data), 0, cfg.Lines)

\* ------------------------------------------------------------ byte windows
\* A plausible slip: from-byte-N taken as 0-indexed.
ByteStartZeroIndexed(cfg, size) ==
    IF cfg.FromStart THEN Max(cfg.Bytes, 0) ELSE Max(size - cfg.Bytes, 0)

\* Tail, bytes mode: startPos from the configured count and the stat size.
ByteStart(cfg, size) ==
    IF cfg.FromStart THEN Max(cfg.Bytes - 1, 0) ELSE Max(size - cfg.Bytes, 0)

\* A plausible slip: every read lands at the start of the buffer.
RingSliceAtZero(t, n) == [lo |-> 0, hi |-> Min(n, chunkSize)]

\* tailReaderBytes: "buf[total%n : min(n, total%n+chunkSize)]", the part of
\* the ring the next Read may fill.
RingSlice(t, n) == [lo |-> t % n, hi |-> Min(n, (t % n) + chunkSize)]

\* buf with data copied in from Go offset lo on.
CopyAt(b, lo, data) ==
    [i \in 1..Len(b) |->
        IF i - 1 >= lo /\ i - 1 < lo + Len(data) THEN data[i - lo] ELSE b[i]]

\* A plausible slip: the wrapped ring is written out from its start.
RingOutputUnrotated(b, t, n) ==
    IF t = 0 THEN <<>> ELSE IF t <= n THEN SubSeq(b, 1, t) ELSE b

\* tailReaderBytes after the read loop: buf[:total], or buf[start:] then
\* buf[:start] with "start := total % n".
RingOutput(b, t, n) ==
    IF t = 0 THEN <<>>
    ELSE IF t <= n THEN SubSeq(b, 1, t)
    ELSE From(b, t % n) \o SubSeq(b, 1, t % n)

\* ------------------------------------------------------------- the tailer
\* Top of a follow loop: "if t.config.PID > 0 && !processExists(t.config.PID)
\* { return nil }". Each action that ends at the top of a loop includes this
\* check: it ends in the select (pc "fd_loop" or "fn_loop") or returns.
PidExited == config.PID > 0 /\ ~alive

\* A plausible slip: the loops never look at the process.
LoopTopIgnoresPid(loop) == loop

LoopTop(loop) == IF PidExited THEN "done" ELSE loop

\* The error returned by the step that ends at pc2, if it returns.
TopErr(pc2) == IF pc2 = "done" THEN "nil" ELSE err

NoWindow == [id |-> 0, len |-> 0, pos |-> 0, out |-> 0]

\* A plausible slip: a failed open waits for the file although Retry is off.
TailOpenWaits ==
    /\ pc = "start"
    /\ ~config.Retry
    /\ call' = "Tail"
    /\ IF path = 0
       THEN /\ pc' = "retry_wait"
            /\ f' = f
       ELSE /\ pc' = IF config.Bytes > 0 THEN "tail_stat" ELSE "tail_read"
            /\ f' = path
    /\ UNCHANGED <<argVars, cmdVars, watcherVars, lineVars, config, envVars, readerVars, startPos, lastPos, output, err,
                   nameVars, window, consumed, truncated, tickEvent, tickMoved, disturbed>>

\* Tail without Retry: "f, err := t.opener.Open(t.config.Path)".
TailOpen ==
    /\ pc = "start"
    /\ ~config.Retry
    /\ call' = "Tail"
    /\ IF path = 0
       THEN /\ pc' = "done"
            /\ err' = "error"
            /\ f' = f
       ELSE /\ pc' = IF config.Bytes > 0 THEN "tail_stat" ELSE "tail_read"
            /\ err' = err
            /\ f' = path
    /\ UNCHANGED <<argVars, cmdVars, watcherVars, lineVars, config, envVars, readerVars, startPos, lastPos, output, nameVars,
                   window, consumed, truncated, tickEvent, tickMoved, disturbed>>

\* Tail, bytes mode: "info, err := os.Stat(t.config.Path)" and the start
\* offset computed from it. The error return leaves the handle as it is.
TailStat ==
    /\ pc = "tail_stat"
    /\ IF path = 0
       THEN /\ pc' = "done"
            /\ err' = "error"
            /\ startPos' = startPos
       ELSE /\ pc' = "tail_read"
            /\ err' = err
            /\ startPos' = ByteStart(config, Len(files[path]))
    /\ UNCHANGED <<argVars, cmdVars, watcherVars, lineVars, config, envVars, readerVars, f, lastPos, output, nameVars, histVars>>

\* A plausible slip: the mode is chosen by the line count first, the byte
\* window being written only when no line count is set.
WindowPrefersLines(cfg, content, start) ==
    IF cfg.Lines > 0
    THEN (IF cfg.FromStart THEN writeLines(cfg, readFromLineN(cfg, content))
          ELSE writeLines(cfg, readLastNLinesBackward(cfg, content)))
    ELSE IF cfg.Bytes > 0 THEN From(content, start)
    ELSE writeLines(cfg, readLastNLinesBackward(cfg, content))

\* What the initial window writes, read from the open handle.
Window(cfg, content, start) ==
    IF cfg.Bytes > 0 THEN From(content, start)
    ELSE IF cfg.FromStart THEN writeLines(cfg, readFromLineN(cfg, content))
    ELSE writeLines(cfg, readLastNLinesBackward(cfg, content))

\* The handle's offset after the window was read: "f.Seek(0, io.SeekCurrent)".
\* Every mode reads to the end of the file; a seek past the end stays there.
WindowEnd(cfg, content, start) ==
    IF cfg.Bytes > 0 THEN Max(start, Len(content)) ELSE Len(content)

\* Tail: seek (bytes mode), read the window, write it, take the position, and
\* hand over to the follow loop or close and return.
TailRead ==
    /\ pc = "tail_read"
    /\ LET w == Window(config, files[f], startPos)
           e == WindowEnd(config, files[f], startPos)
       IN  /\ output' = output \o w
           /\ lastPos' = e
           /\ window' = [id |-> f, len |-> Len(files[f]), pos |-> e,
                         out |-> Len(output) + Len(w)]
    /\ IF ~config.Follow
       THEN /\ f' = 0
            /\ pc' = "done"
            /\ err' = "nil"
       ELSE IF config.FollowName
            THEN /\ f' = 0
                 /\ pc' = "fn_init"
                 /\ err' = err
            ELSE /\ pc' = LoopTop("fd_loop")
                 /\ f' = IF pc' = "done" THEN 0 ELSE f
                 /\ err' = TopErr(pc')
    /\ UNCHANGED <<argVars, cmdVars, watcherVars, lineVars, config, envVars, readerVars, startPos, nameVars,
                   call, consumed, truncated, tickEvent, tickMoved, disturbed>>

\* TailReader: line modes read the stream to its end; from-byte-N discards
\* and streams; last-N bytes sets up the ring and enters the read loop.
TailReader ==
    /\ pc = "start"
    /\ call' = "TailReader"
    /\ IF config.Bytes > 0 /\ ~config.FromStart
       THEN /\ buf' = [i \in 1..config.Bytes |-> 0]
            /\ total' = 0
            /\ pc' = "rd_loop"
            /\ UNCHANGED <<output, err>>
       ELSE /\ output' = output \o
                (IF config.Bytes > 0
                 THEN From(input, Max(config.Bytes - 1, 0))
                 ELSE IF config.FromStart
                      THEN writeLines(config, readFromLineN(config, input))
                      ELSE writeLines(config, readLastNLinesForward(config, input)))
            /\ pc' = "done"
            /\ err' = "nil"
            /\ UNCHANGED <<buf, total>>
    /\ UNCHANGED <<argVars, cmdVars, watcherVars, lineVars, config, envVars, input, f, startPos, lastPos, nameVars,
                   window, consumed, truncated, tickEvent, tickMoved, disturbed>>

\* tailReaderBytes: one Read into the ring slice. The reader returns between
\* 1 and len(slice) bytes, or reports io.EOF with the last bytes or with none.
ReaderRead ==
    /\ pc = "rd_loop"
    /\ LET n == config.Bytes
           s == RingSlice(total, n)
           left == Len(input) - total
       IN  \E readN \in 0..Min(s.hi - s.lo, left), eof \in BOOLEAN :
              /\ eof => readN = left
              /\ ~eof => readN >= 1
              /\ buf' = CopyAt(buf, s.lo, SubSeq(input, total + 1, total + readN))
              /\ total' = total + readN
              /\ IF eof
                 THEN /\ output' = output \o RingOutput(buf', total', n)
                      /\ pc' = "done"
                      /\ err' = "nil"
                 ELSE UNCHANGED <<output, pc, err>>
    /\ UNCHANGED <<argVars, cmdVars, watcherVars, lineVars, config, envVars, input, f, startPos, lastPos, nameVars, histVars>>

\* ------------------------------------------------- one-shot reads (no follow)
Alphabet(z) == IF z THEN {97, NUL, LF} ELSE {97, LF, CR}

Contents(z) == UNION {[1..n -> Alphabet(z)] : n \in 0..MaxLen}

\* NewWatcher: a watcher whose Watch has not been called.
NoEvent == [Size |-> 0, Truncated |-> FALSE]

NewWatcher ==
    /\ wpc = "start"
    /\ wLastSize = 0
    /\ wEvt = NoEvent
    /\ wChan = "none"
    /\ wErr = "none"
    /\ wSeen = "none"
    /\ wStart = 0
    /\ wDelivered = <<>>

\* No invocation of the command is under way.
NoInvocation ==
    /\ cargs = [paths |-> <<>>, missing |-> <<>>, follow |-> FALSE, showHeaders |-> FALSE,
                zeroTerminated |-> FALSE]
    /\ cpc = "none"
    /\ seqIndex = 0
    /\ tpc = <<>>
    /\ writesLeft = <<>>
    /\ mu = 0
    /\ lastPrinted = ""
    /\ cout = <<>>
    /\ cerr = <<>>
    /\ ret = "none"

\* The state of a tailer NewTailer has just built, before Tail or TailReader.
FreshTailer ==
    /\ cancelled = FALSE
    /\ ops = 0
    /\ buf = <<>>
    /\ total = 0
    /\ lrLines = <<>>
    /\ scanStart = 0
    /\ scanEnd = 0
    /\ scanEOF = FALSE
    /\ scanBase = 0
    /\ scanBuf = 0
    /\ lrCalls = 0
    /\ pc = "start"
    /\ f = 0
    /\ startPos = 0
    /\ lastPos = 0
    /\ output = <<>>
    /\ err = "none"
    /\ lastSize = 0
    /\ lastFileInfo = 0
    /\ unchangedCount = 0
    /\ currentSize = 0
    /\ info = 0
    /\ call = "none"
    /\ window = NoWindow
    /\ consumed = [id \in 1..MaxFiles |-> {}]
    /\ truncated = {}
    /\ tickEvent = "none"
    /\ tickMoved = FALSE
    /\ disturbed = FALSE

\* A fresh tailer, a watcher not started, the command not invoked.
\* No argument is being parsed.
NoArgument ==
    /\ numArg = <<>>
    /\ parsed = [done |-> FALSE, n |-> [neg |-> FALSE, mag |-> <<0, 0, 0, 0, 0>>],
                fromStart |-> FALSE, err |-> FALSE]

Fresh == FreshTailer /\ NewWatcher /\ NoInvocation /\ NoArgument

InitWindow ==
    /\ config \in [Lines : 0..MaxCount, Bytes : 0..MaxCount,
                   FromStart : BOOLEAN, ZeroTerminated : BOOLEAN,
                   Follow : {FALSE}, FollowName : {FALSE},
                   MaxUnchangedStats : {0}, Retry : {FALSE}, PID : {0}]
    /\ \E c \in Contents(config.ZeroTerminated) :
          /\ files = <<c>>
          /\ input = c
    /\ path = 1
    /\ alive = TRUE
    /\ Fresh

NextWindow == TailOpen \/ TailStat \/ TailRead \/ TailReader \/ ReaderRead

SpecWindow == InitWindow /\ [][NextWindow]_vars

\* ------------------------------------------------------------ tailWithRetry
\* tailWithRetry, top of the loop: "f, err := t.opener.Open(t.config.Path)",
\* on entry from Tail and after every tick of the wait.
RetryOpen ==
    /\ pc \in {"start", "retry_open"}
    /\ config.Retry
    /\ call' = "Tail"
    /\ IF path = 0
       THEN /\ pc' = "retry_wait"
            /\ f' = f
       ELSE /\ pc' = IF config.Bytes > 0 THEN "retry_stat" ELSE "retry_read"
            /\ f' = path
    /\ UNCHANGED <<argVars, cmdVars, watcherVars, lineVars, config, envVars, readerVars, startPos, lastPos, output, err,
                   nameVars, window, consumed, truncated, tickEvent, tickMoved, disturbed>>

\* tailWithRetry, the wait: "case <-ctx.Done(): return nil".
RetryCancel ==
    /\ pc = "retry_wait"
    /\ cancelled
    /\ pc' = "done"
    /\ err' = "nil"
    /\ UNCHANGED <<argVars, cmdVars, watcherVars, lineVars, config, envVars, readerVars, f, startPos, lastPos, output,
                   nameVars, histVars>>

\* A plausible slip: the wait checks the process as the follow loops do.
RetryTickChecksPid ==
    /\ pc = "retry_wait"
    /\ pc' = LoopTop("retry_open")
    /\ err' = TopErr(pc')
    /\ UNCHANGED <<argVars, cmdVars, watcherVars, lineVars, config, envVars, readerVars, f, startPos, lastPos, output,
                   nameVars, histVars>>

\* tailWithRetry, the wait: "case <-ticker.C:", on to the next iteration.
RetryTick ==
    /\ pc = "retry_wait"
    /\ pc' = "retry_open"
    /\ UNCHANGED <<argVars, cmdVars, watcherVars, lineVars, config, envVars, readerVars, f, startPos, lastPos, output, err,
                   nameVars, histVars>>

\* A plausible slip: the retry path counts from-byte-N from 0.
RetryByteStartZeroIndexed(cfg, size) ==
    IF cfg.FromStart THEN cfg.Bytes ELSE Max(size - cfg.Bytes, 0)

\* tailWithRetry, bytes mode: startPos from the count and the stat's size.
RetryByteStart(cfg, size) ==
    IF cfg.FromStart
    THEN (IF cfg.Bytes - 1 < 0 THEN 0 ELSE cfg.Bytes - 1)
    ELSE (IF size - cfg.Bytes < 0 THEN 0 ELSE size - cfg.Bytes)

\* tailWithRetry, bytes mode: "info, err := os.Stat(t.config.Path)"; the
\* error return closes the handle.
RetryStat ==
    /\ pc = "retry_stat"
    /\ IF path = 0
       THEN /\ pc' = "done"
            /\ err' = "error"
            /\ f' = 0
            /\ startPos' = startPos
       ELSE /\ pc' = "retry_read"
            /\ err' = err
            /\ f' = f
            /\ startPos' = RetryByteStart(config, Len(files[path]))
    /\ UNCHANGED <<argVars, cmdVars, watcherVars, lineVars, config, envVars, readerVars, lastPos, output, nameVars, histVars>>

\* tailWithRetry: what the three branches of the window write.
RetryWindow(cfg, content, start) ==
    IF cfg.Bytes > 0 THEN SubSeq(content, start + 1, Len(content))
    ELSE IF cfg.FromStart THEN writeLines(cfg, readFromLineN(cfg, content))
    ELSE writeLines(cfg, readLastNLinesBackward(cfg, content))

\* tailWithRetry: "pos, _ = f.Seek(0, io.SeekCurrent)" after each branch.
RetryWindowEnd(cfg, content, start) ==
    IF cfg.Bytes > 0 /\ start > Len(content) THEN start ELSE Len(content)

\* tailWithRetry: seek (bytes mode), read the window, write it, take the
\* position, close the handle, and return or go on to the follow variant.
RetryRead ==
    /\ pc = "retry_read"
    /\ LET w == RetryWindow(config, files[f], startPos)
           e == RetryWindowEnd(config, files[f], startPos)
       IN  /\ output' = output \o w
           /\ lastPos' = e
           /\ window' = [id |-> f, len |-> Len(files[f]), pos |-> e,
                         out |-> Len(output) + Len(w)]
    /\ f' = 0
    /\ IF ~config.Follow
       THEN /\ pc' = "done"
            /\ err' = "nil"
       ELSE /\ pc' = IF config.FollowName THEN "fn_init" ELSE "retry_reopen"
            /\ err' = err
    /\ UNCHANGED <<argVars, cmdVars, watcherVars, lineVars, config, envVars, readerVars, startPos, nameVars,
                   call, consumed, truncated, tickEvent, tickMoved, disturbed>>

\* tailWithRetry, by-descriptor follow: "f2, err := t.opener.Open(t.config.Path)".
RetryReopen ==
    /\ pc = "retry_reopen"
    /\ IF path = 0
       THEN /\ pc' = "done"
            /\ err' = "error"
            /\ f' = f
       ELSE /\ pc' = LoopTop("fd_loop")
            /\ err' = TopErr(pc')
            /\ f' = IF pc' = "done" THEN 0 ELSE path
    /\ UNCHANGED <<argVars, cmdVars, watcherVars, lineVars, config, envVars, readerVars, startPos, lastPos, output,
                   nameVars, histVars>>

\* ---------------------------------------------------------- the line reader
\* NewLineReader / NewLineReaderWithDelimiter on the source: a scanner with
\* nothing buffered.
NewLineReader ==
    /\ pc = "start"
    /\ call' = "NewLineReader"
    /\ scanBuf' = MaxScanTokenSize
    /\ pc' = "lr_split"
    /\ UNCHANGED <<argVars, cmdVars, watcherVars, lrLines, scanStart, scanEnd, scanEOF, scanBase, lrCalls, config,
                   envVars, readerVars, f, startPos, lastPos, output, err,
                   nameVars, window, consumed, truncated, tickEvent, tickMoved, disturbed>>

\* ReadLine, in bufio.Scanner.Scan: with data buffered or the source ended,
\* the split function sees the buffered data; a token is the line ReadLine
\* returns, no token at the end of the source is io.EOF, no token before it
\* asks for more data.
ScanSplit ==
    /\ pc = "lr_split"
    /\ IF scanEnd > scanStart \/ scanEOF
       THEN LET r == newLineReader(config, SubSeq(input, scanStart + 1, scanEnd), scanEOF) IN
            IF r.ok
            THEN /\ lrLines' = Append(lrLines, r.token)
                 /\ scanStart' = scanStart + r.advance
                 /\ UNCHANGED <<pc, err>>
            ELSE /\ pc' = IF scanEOF THEN "lr_eof" ELSE "lr_fill"
                 /\ err' = IF scanEOF THEN "io.EOF" ELSE err
                 /\ UNCHANGED <<lrLines, scanStart>>
       ELSE /\ pc' = "lr_fill"
            /\ UNCHANGED <<lrLines, scanStart, err>>
    /\ UNCHANGED <<argVars, cmdVars, watcherVars, scanEnd, scanEOF, scanBase, scanBuf, lrCalls, config, envVars, readerVars,
                   f, startPos, lastPos, output, nameVars, histVars>>

\* bufio.Scanner.Scan, buffer full: "if len(s.buf) >= s.maxTokenSize" the
\* scan fails with ErrTooLong.
ScanTooLong(len) == len >= maxLineSize

\* bufio.Scanner.Scan without a token: data is shifted to the start of the
\* buffer when space is needed, a full buffer is doubled up to the maximum
\* token size or the scan fails with ErrTooLong (ReadLine keeps the error and
\* returns it), and then one Read of the source fills free buffer space. The
\* source delivers between 1 and all of its remaining bytes, or reports
\* io.EOF.
ScanFill ==
    /\ pc = "lr_fill"
    /\ LET shift == scanStart > scanBase
                      /\ (scanEnd - scanBase = scanBuf
                          \/ scanStart - scanBase > scanBuf \div 2)
           base == IF shift THEN scanStart ELSE scanBase
           full == scanEnd - base = scanBuf
       IN  IF full /\ ScanTooLong(scanBuf)
           THEN /\ pc' = "lr_err"
                /\ err' = "ErrTooLong"
                /\ UNCHANGED <<scanEnd, scanEOF, scanBase, scanBuf>>
           ELSE LET len == IF full THEN Min(scanBuf * 2, maxLineSize) ELSE scanBuf
                IN  /\ \E n \in 0..Min(len - (scanEnd - base), Len(input) - scanEnd),
                          eof \in BOOLEAN :
                          /\ eof => scanEnd + n = Len(input)
                          /\ ~eof => n >= 1
                          /\ scanEnd' = scanEnd + n
                          /\ scanEOF' = eof
                    /\ scanBase' = base
                    /\ scanBuf' = len
                    /\ pc' = "lr_split"
                    /\ err' = err
    /\ UNCHANGED <<argVars, cmdVars, watcherVars, lrLines, scanStart, lrCalls, config, envVars, readerVars, f, startPos, lastPos,
                   output, nameVars, histVars>>

\* ------------------------------------- line windows read through the scanner
\* Where the line reader of the initial window starts: offset 0 for a stream
\* and for from-line-N, and for last-N lines of a file larger than a chunk
\* the offset readLastNLinesBackward found.
LineStart(entry, cfg, content) ==
    IF entry = "Tail" /\ ~cfg.FromStart /\ Len(content) > chunkSize
    THEN BackwardPos(content, Len(content), 0, LinesNeeded(cfg),
                     IF cfg.ZeroTerminated THEN NUL ELSE LF)
    ELSE 0

\* What readFromLineN and readLastNLinesForward return for the lines all.
LinesKept(cfg, all) ==
    IF cfg.FromStart THEN FromLineLoop(all, 0, cfg.Lines) ELSE RingLines(cfg, all)

\* Tail, line modes: open the file and start the line reader of the window.
TailScan ==
    /\ pc = "start"
    /\ ~config.Retry /\ config.Bytes = 0
    /\ path # 0
    /\ call' = "Tail"
    /\ f' = path
    /\ input' = files[path]
    /\ LET s == LineStart("Tail", config, files[path]) IN
          /\ scanStart' = s
          /\ scanEnd' = s
          /\ scanBase' = s
    /\ scanBuf' = MaxScanTokenSize
    /\ pc' = "lr_split"
    /\ UNCHANGED <<argVars, cmdVars, watcherVars, lrLines, scanEOF, lrCalls, config, envVars, buf, total,
                   startPos, lastPos, output, err, nameVars,
                   window, consumed, truncated, tickEvent, tickMoved, disturbed>>

\* TailReader, line modes: start the line reader on the stream.
TailReaderScan ==
    /\ pc = "start"
    /\ config.Bytes = 0
    /\ call' = "TailReader"
    /\ scanBuf' = MaxScanTokenSize
    /\ pc' = "lr_split"
    /\ UNCHANGED <<argVars, cmdVars, watcherVars, lrLines, scanStart, scanEnd, scanEOF, scanBase, lrCalls, config,
                   envVars, readerVars, f, startPos, lastPos, output, err, nameVars,
                   window, consumed, truncated, tickEvent, tickMoved, disturbed>>

\* ReadLine returned io.EOF: readFromLineN / readLastNLinesForward return the
\* lines kept, Tail (TailReader) writes them and, without follow, returns.
ScanReturn ==
    /\ pc = "lr_eof"
    /\ call \in {"Tail", "TailReader"}
    /\ output' = output \o writeLines(config, LinesKept(config, lrLines))
    /\ lastPos' = scanEnd
    /\ f' = 0
    /\ pc' = "done"
    /\ err' = "nil"
    /\ UNCHANGED <<argVars, cmdVars, watcherVars, lineVars, config, envVars, readerVars, startPos, nameVars,
                   histVars>>

\* ReadLine returned an error other than io.EOF: "return nil, err" in the
\* reading loop and "return fmt.Errorf("reading lines: %w", err)" in Tail
\* (which leaves the handle as it is) and TailReader.
ScanError ==
    /\ pc = "lr_err"
    /\ call \in {"Tail", "TailReader"}
    /\ pc' = "done"
    /\ err' = "error"
    /\ UNCHANGED <<argVars, cmdVars, watcherVars, lineVars, config, envVars, readerVars, f, startPos, lastPos,
                   output, nameVars, histVars>>

\* Files of lines of every length up to more than maxLineSize.
LongContents == UNION {[1..n -> {97, LF}] : n \in 0..(maxLineSize + 2)}

InitLong ==
    /\ config \in [Lines : {1, 2}, Bytes : {0},
                   FromStart : BOOLEAN, ZeroTerminated : {FALSE},
                   Follow : {FALSE}, FollowName : {FALSE},
                   MaxUnchangedStats : {0}, Retry : {FALSE}, PID : {0}]
    /\ \E c \in LongContents :
          /\ files = <<c>>
          /\ input = c
    /\ path = 1
    /\ alive = TRUE
    /\ Fresh

NextLong == TailScan \/ TailReaderScan \/ ScanSplit \/ ScanFill \/ ScanReturn \/ ScanError

SpecLong == InitLong /\ [][NextLong]_vars

LineBytes == {97, LF, CR, NUL}

InitLines ==
    /\ config \in [Lines : {0}, Bytes : {0},
                   FromStart : {FALSE}, ZeroTerminated : BOOLEAN,
                   Follow : {FALSE}, FollowName : {FALSE},
                   MaxUnchangedStats : {0}, Retry : {FALSE}, PID : {0}]
    /\ input \in UNION {[1..n -> LineBytes] : n \in 0..MaxLen}
    /\ files = <<>>
    /\ path = 0
    /\ alive = TRUE
    /\ Fresh

NextLines == NewLineReader \/ ScanSplit \/ ScanFill

SpecLines == InitLines /\ [][NextLines]_vars

\* ------------------------------------------------- a line reader at its end
\* The most ReadLine calls made on a reader after it returned an error.
MaxCalls == 2

\* A plausible slip: ReadLine asks the scanner again, and the scanner the
\* source, although an earlier call returned an error.
ReadLineRescans ==
    /\ pc \in {"lr_eof", "lr_err"}
    /\ lrCalls < MaxCalls
    /\ lrCalls' = lrCalls + 1
    /\ scanEOF' = FALSE
    /\ pc' = "lr_split"
    /\ UNCHANGED <<argVars, cmdVars, watcherVars, lrLines, scanStart, scanEnd, scanBase, scanBuf, config,
                   envVars, readerVars, f, startPos, lastPos, output, err, nameVars, histVars>>

\* ReadLine on a reader that has returned an error: "if lr.err != nil
\* { return "", lr.err }".
ReadLineAgain ==
    /\ pc \in {"lr_eof", "lr_err"}
    /\ lrCalls < MaxCalls
    /\ lrCalls' = lrCalls + 1
    /\ UNCHANGED <<argVars, cmdVars, watcherVars, lrLines, scanStart, scanEnd, scanEOF, scanBase, scanBuf,
                   config, envVars, readerVars, pc, f, startPos, lastPos, output, err, nameVars,
                   histVars>>

\* What the source receives: a content byte or the delimiter of the mode.
GrowBytes(cfg) == {97, IF cfg.ZeroTerminated THEN NUL ELSE LF}

\* Another process appends a byte to the source the reader reads, which
\* grows to one byte more than the scanner's buffer can hold.
SourceGrows ==
    /\ call = "NewLineReader"
    /\ Len(input) <= maxLineSize
    /\ \E b \in GrowBytes(config) : input' = Append(input, b)
    /\ UNCHANGED <<argVars, cmdVars, watcherVars, lineVars, config, envVars, buf, total, pc, f, startPos,
                   lastPos, output, err, nameVars, histVars>>

\* A follow tick: the handle is at the offset the last reader read to, and
\* "lr := t.newLineReader(f)" builds a new reader on it.
TickNewReader ==
    /\ pc = "lr_eof"
    /\ lrLines' = <<>>
    /\ scanStart' = scanEnd
    /\ scanBase' = scanEnd
    /\ scanEOF' = FALSE
    /\ scanBuf' = MaxScanTokenSize
    /\ lrCalls' = 0
    /\ err' = "none"
    /\ pc' = "lr_split"
    /\ UNCHANGED <<argVars, cmdVars, watcherVars, scanEnd, config, envVars, readerVars, f, startPos,
                   lastPos, output, nameVars, histVars>>

\* A reader on a source of at most MaxCount bytes, which grows.
InitSticky ==
    /\ config \in [Lines : {0}, Bytes : {0},
                   FromStart : {FALSE}, ZeroTerminated : BOOLEAN,
                   Follow : {FALSE}, FollowName : {FALSE},
                   MaxUnchangedStats : {0}, Retry : {FALSE}, PID : {0}]
    /\ input \in UNION {[1..n -> LineBytes] : n \in 0..MaxCount}
    /\ files = <<>>
    /\ path = 0
    /\ alive = TRUE
    /\ Fresh

NextSticky ==
    \/ NewLineReader \/ ScanSplit \/ ScanFill
    \/ ReadLineAgain \/ SourceGrows \/ TickNewReader

SpecSticky == InitSticky /\ [][NextSticky]_vars

\* ------------------------------------------------------ follow by descriptor
\* One read of a follow tick: seek the handle to Position, ReadLine until
\* io.EOF writing each line, and take the handle's offset as the new Position.
TickLines(cfg, content, from) == ReadLines(cfg, From(content, from))

\* "newPos, _ := f.Seek(0, io.SeekCurrent)": the reader read to the end of the
\* file; a seek past the end stays where it is.
TickEnd(content, from) == Max(from, Len(content))

\* The offsets a read from Position takes in.
TickOffsets(content, from) == from..(Len(content) - 1)

\* A plausible slip: the return on cancellation leaves the handle open.
FdCancelLeavesOpen ==
    /\ pc = "fd_loop"
    /\ cancelled
    /\ f' = f
    /\ pc' = "done"
    /\ err' = "nil"
    /\ UNCHANGED <<argVars, cmdVars, watcherVars, lineVars, config, envVars, readerVars, startPos, lastPos, output, nameVars, histVars>>

\* followByDescriptor: "case <-ctx.Done(): return nil", with the deferred Close.
FdCancel ==
    /\ pc = "fd_loop"
    /\ cancelled
    /\ f' = 0
    /\ pc' = "done"
    /\ err' = "nil"
    /\ UNCHANGED <<argVars, cmdVars, watcherVars, lineVars, config, envVars, readerVars, startPos, lastPos, output, nameVars, histVars>>

\* A plausible slip: the tick reopens the path instead of reading the handle.
FdTickReopens ==
    /\ pc = "fd_loop"
    /\ path # 0
    /\ f' = path
    /\ output' = output \o writeLines(config, TickLines(config, files[path], lastPos))
    /\ lastPos' = TickEnd(files[path], lastPos)
    /\ consumed' = [consumed EXCEPT ![path] = @ \cup TickOffsets(files[path], lastPos)]
    /\ tickEvent' = "none"
    /\ UNCHANGED <<argVars, cmdVars, watcherVars, lineVars, config, envVars, readerVars, pc, startPos, err, nameVars,
                   call, window, truncated, tickMoved, disturbed>>

\* A plausible slip: the by-descriptor tick handles truncation as the by-name
\* tick does, restarting at offset 0 when the file is shorter than Position.
FdTickRestartsOnTruncation ==
    /\ pc = "fd_loop"
    /\ LET from == IF Len(files[f]) < lastPos THEN 0 ELSE lastPos
       IN  /\ output' = output \o writeLines(config, TickLines(config, files[f], from))
           /\ lastPos' = TickEnd(files[f], from)
           /\ consumed' = [consumed EXCEPT ![f] = @ \cup TickOffsets(files[f], from)]
    /\ pc' = LoopTop("fd_loop")
    /\ f' = IF pc' = "done" THEN 0 ELSE f
    /\ err' = TopErr(pc')
    /\ tickEvent' = "none"
    /\ UNCHANGED <<argVars, cmdVars, watcherVars, lineVars, config, envVars, readerVars, startPos, nameVars,
                   call, window, truncated, tickMoved, disturbed>>

\* followByDescriptor: "case <-ticker.C:", the whole tick on the held handle
\* (the seek succeeded: tickEvent "none").
FdTick ==
    /\ pc = "fd_loop"
    /\ output' = output \o writeLines(config, TickLines(config, files[f], lastPos))
    /\ lastPos' = TickEnd(files[f], lastPos)
    /\ consumed' = [consumed EXCEPT ![f] = @ \cup TickOffsets(files[f], lastPos)]
    /\ pc' = LoopTop("fd_loop")
    /\ f' = IF pc' = "done" THEN 0 ELSE f
    /\ err' = TopErr(pc')
    /\ tickEvent' = "none"
    /\ UNCHANGED <<argVars, cmdVars, watcherVars, lineVars, config, envVars, readerVars, startPos, nameVars,
                   call, window, truncated, tickMoved, disturbed>>

\* ------------------------------------------------------------ follow by name
\* followByName before its loop: the counters, and "Get initial file info".
FnInit ==
    /\ pc = "fn_init"
    /\ IF path # 0
       THEN /\ lastSize' = Len(files[path])
            /\ lastFileInfo' = path
       ELSE /\ lastSize' = 0
            /\ lastFileInfo' = 0
    /\ unchangedCount' = 0
    /\ pc' = LoopTop("fn_loop")
    /\ err' = TopErr(pc')
    /\ UNCHANGED <<argVars, cmdVars, watcherVars, lineVars, config, envVars, readerVars, f, startPos, lastPos, output,
                   currentSize, info, histVars>>

\* followByName: "case <-ctx.Done(): return nil".
FnCancel ==
    /\ pc = "fn_loop"
    /\ cancelled
    /\ pc' = "done"
    /\ err' = "nil"
    /\ UNCHANGED <<argVars, cmdVars, watcherVars, lineVars, config, envVars, readerVars, f, startPos, lastPos, output, nameVars, histVars>>

\* A plausible slip: a smaller size adopts the size and keeps the position.
AfterTruncationKeepsPos(pos, size, cur) ==
    IF cur < size THEN [pos |-> pos, size |-> cur, hit |-> TRUE]
    ELSE [pos |-> pos, size |-> size, hit |-> FALSE]

\* "Check for truncation": if currentSize < lastSize { lastPos = 0; lastSize = currentSize }.
AfterTruncation(pos, size, cur) ==
    IF cur < size THEN [pos |-> 0, size |-> cur, hit |-> TRUE]
    ELSE [pos |-> pos, size |-> size, hit |-> FALSE]

\* "Check for file replacement": the identity from the stat differs from the
\* last-known one.
Replaced(cfg, last, now) == cfg.FollowName /\ last # 0 /\ last # now

\* followByName: "case <-ticker.C:" from the stat to the decision to read.
\* A failed stat skips the tick. The history variable tickEvent records what
\* the tick saw.
FnTick ==
    /\ pc = "fn_loop"
    /\ IF path = 0
       THEN /\ pc' = LoopTop("fn_loop")
            /\ UNCHANGED <<lastPos, nameVars, tickEvent>>
            /\ tickMoved' = FALSE
       ELSE LET cur == Len(files[path])
                rep == Replaced(config, lastFileInfo, path)
                p1 == IF rep THEN 0 ELSE lastPos
                s1 == IF rep THEN 0 ELSE lastSize
                i1 == IF rep THEN path ELSE lastFileInfo
                u1 == IF rep THEN 0 ELSE unchangedCount
                t == AfterTruncation(p1, s1, cur)
            IN  /\ currentSize' = cur
                /\ info' = path
                /\ lastPos' = t.pos
                /\ lastSize' = t.size
                /\ lastFileInfo' = i1
                /\ tickEvent' = IF rep THEN "replaced"
                                ELSE IF t.hit THEN "truncated" ELSE "none"
                /\ tickMoved' = (t.pos # lastPos)
                /\ IF cur = t.size /\ cur = t.pos
                   THEN /\ u1 < MaxUnchanged
                        /\ unchangedCount' = u1 + 1
                        /\ pc' = IF config.FollowName /\ config.MaxUnchangedStats > 0
                                    /\ u1 + 1 >= config.MaxUnchangedStats
                                 THEN "fn_restat" ELSE LoopTop("fn_loop")
                   ELSE /\ unchangedCount' = 0
                        /\ pc' = "fn_open"
    /\ err' = TopErr(pc')
    /\ UNCHANGED <<argVars, cmdVars, watcherVars, lineVars, config, envVars, readerVars, f, startPos, output,
                   call, window, consumed, truncated, disturbed>>

\* A plausible slip: the counter is reset only when the extra stat finds
\* another file.
FnRestatKeepsCount ==
    /\ pc = "fn_restat"
    /\ IF path # 0 /\ lastFileInfo # 0 /\ lastFileInfo # path
       THEN /\ lastPos' = 0
            /\ lastSize' = 0
            /\ lastFileInfo' = path
            /\ unchangedCount' = 0
       ELSE UNCHANGED <<lastPos, lastSize, lastFileInfo, unchangedCount>>
    /\ pc' = LoopTop("fn_loop")
    /\ err' = TopErr(pc')
    /\ UNCHANGED <<argVars, cmdVars, watcherVars, lineVars, config, envVars, readerVars, f, startPos, output,
                   currentSize, info, histVars>>

\* followByName, threshold reached: "newInfo, err := os.Stat(t.config.Path)".
FnRestat ==
    /\ pc = "fn_restat"
    /\ IF path # 0 /\ lastFileInfo # 0 /\ lastFileInfo # path
       THEN /\ lastPos' = 0
            /\ lastSize' = 0
            /\ lastFileInfo' = path
       ELSE UNCHANGED <<lastPos, lastSize, lastFileInfo>>
    /\ unchangedCount' = 0
    /\ pc' = LoopTop("fn_loop")
    /\ err' = TopErr(pc')
    /\ UNCHANGED <<argVars, cmdVars, watcherVars, lineVars, config, envVars, readerVars, f, startPos, output,
                   currentSize, info, histVars>>

\* A plausible slip: a failed open ends the loop with the error.
FnOpenFailureFatal ==
    /\ pc = "fn_open"
    /\ IF path = 0
       THEN /\ pc' = "done"
            /\ err' = "error"
            /\ f' = f
       ELSE /\ pc' = "fn_read"
            /\ err' = err
            /\ f' = path
    /\ UNCHANGED <<argVars, cmdVars, watcherVars, lineVars, config, envVars, readerVars, startPos, lastPos, output,
                   nameVars, histVars>>

\* followByName: "f, err := t.opener.Open(t.config.Path)"; a failed open
\* skips the tick.
FnOpen ==
    /\ pc = "fn_open"
    /\ IF path = 0
       THEN /\ pc' = LoopTop("fn_loop")
            /\ f' = f
       ELSE /\ pc' = "fn_read"
            /\ f' = path
    /\ err' = TopErr(pc')
    /\ UNCHANGED <<argVars, cmdVars, watcherVars, lineVars, config, envVars, readerVars, startPos, lastPos, output,
                   nameVars, histVars>>

\* followByName: seek, read and write the lines, update position, size and
\* identity, close.
FnRead ==
    /\ pc = "fn_read"
    /\ output' = output \o writeLines(config, TickLines(config, files[f], lastPos))
    /\ lastPos' = TickEnd(files[f], lastPos)
    /\ lastSize' = currentSize
    /\ lastFileInfo' = info
    /\ consumed' = [consumed EXCEPT ![f] = @ \cup TickOffsets(files[f], lastPos)]
    /\ f' = 0
    /\ pc' = LoopTop("fn_loop")
    /\ err' = TopErr(pc')
    /\ UNCHANGED <<argVars, cmdVars, watcherVars, lineVars, config, envVars, readerVars, startPos, unchangedCount,
                   currentSize, info, call, window, truncated, tickEvent, tickMoved, disturbed>>

\* ------------------------------------------------------- seeks that fail
\* followByDescriptor: "_, err := f.Seek(lastPos, io.SeekStart); if err != nil
\* { continue }". The history variable tickEvent records the failure.
FdSeekFails ==
    /\ pc = "fd_loop"
    /\ tickEvent' = "seek_failed"
    /\ pc' = LoopTop("fd_loop")
    /\ f' = IF pc' = "done" THEN 0 ELSE f
    /\ err' = TopErr(pc')
    /\ UNCHANGED <<argVars, cmdVars, watcherVars, lineVars, config, envVars, readerVars, startPos, lastPos, output,
                   nameVars, call, window, consumed, truncated, tickMoved, disturbed>>

\* A plausible slip: the failed seek skips the tick without closing the handle.
FnSeekFailsLeavesOpen ==
    /\ pc = "fn_read"
    /\ tickEvent' = "seek_failed"
    /\ pc' = LoopTop("fn_loop")
    /\ err' = TopErr(pc')
    /\ UNCHANGED <<argVars, cmdVars, watcherVars, lineVars, config, envVars, readerVars, f, startPos, lastPos, output,
                   nameVars, call, window, consumed, truncated, tickMoved, disturbed>>

\* followByName: "_, err = f.Seek(lastPos, io.SeekStart); if err != nil
\* { f.Close(); continue }".
FnSeekFails ==
    /\ pc = "fn_read"
    /\ tickEvent' = "seek_failed"
    /\ f' = 0
    /\ pc' = LoopTop("fn_loop")
    /\ err' = TopErr(pc')
    /\ UNCHANGED <<argVars, cmdVars, watcherVars, lineVars, config, envVars, readerVars, startPos, lastPos, output,
                   nameVars, call, window, consumed, truncated, tickMoved, disturbed>>

\* ------------------------------------------------------ the other processes
\* What writers append: content bytes and the delimiter of the mode (in NUL
\* mode the newline is content).
AppendBytes(cfg) == IF cfg.ZeroTerminated THEN {LF, NUL} ELSE {97, LF}

\* A writer appends one byte to a file (at the path or renamed away).
AppendByte ==
    /\ ops < MaxOps
    /\ \E id \in 1..Len(files), b \in AppendBytes(config) :
          /\ Len(files[id]) < MaxFileLen
          /\ files' = [files EXCEPT ![id] = Append(@, b)]
    /\ ops' = ops + 1
    /\ UNCHANGED <<argVars, cmdVars, watcherVars, lineVars, alive, config, path, cancelled, readerVars, pc, f, startPos, lastPos,
                   output, err, nameVars, histVars>>

\* A writer truncates a file to nothing (the first half of a rewrite).
Truncate ==
    /\ ops < MaxOps
    /\ \E id \in 1..Len(files) :
          /\ Len(files[id]) > 0
          /\ files' = [files EXCEPT ![id] = <<>>]
          /\ consumed' = [consumed EXCEPT ![id] = {}]
          /\ truncated' = truncated \cup {id}
    /\ ops' = ops + 1
    /\ disturbed' = TRUE
    /\ UNCHANGED <<argVars, cmdVars, watcherVars, lineVars, alive, config, path, cancelled, readerVars, pc, f, startPos, lastPos,
                   output, err, nameVars, call, window, tickEvent, tickMoved>>

\* The file is renamed away: the path no longer exists, the file does.
RenameAway ==
    /\ ops < MaxOps
    /\ path # 0
    /\ path' = 0
    /\ ops' = ops + 1
    /\ disturbed' = TRUE
    /\ UNCHANGED <<argVars, cmdVars, watcherVars, lineVars, alive, config, files, cancelled, readerVars, pc, f, startPos, lastPos,
                   output, err, nameVars, call, window, consumed, truncated, tickEvent, tickMoved>>

\* A new file appears at the path, created there or renamed over what was there.
Create ==
    /\ ops < MaxOps
    /\ Len(files) < MaxFiles
    /\ \E c \in {<<>>, <<98, LF>>} : files' = Append(files, c)
    /\ path' = Len(files) + 1
    /\ ops' = ops + 1
    /\ disturbed' = TRUE
    /\ UNCHANGED <<argVars, cmdVars, watcherVars, lineVars, alive, config, cancelled, readerVars, pc, f, startPos, lastPos,
                   output, err, nameVars, call, window, consumed, truncated, tickEvent, tickMoved>>

\* The monitored process exits.
ProcessExit ==
    /\ config.PID > 0
    /\ alive
    /\ alive' = FALSE
    /\ UNCHANGED <<argVars, cmdVars, watcherVars, lineVars, config, files, path, cancelled, ops, readerVars, pc, f,
                   startPos, lastPos, output, err, nameVars, histVars>>

\* The caller cancels the context.
Cancel ==
    /\ ~cancelled
    /\ cancelled' = TRUE
    /\ UNCHANGED <<argVars, cmdVars, watcherVars, lineVars, alive, config, files, path, ops, readerVars, pc, f, startPos, lastPos,
                   output, err, nameVars, histVars>>

\* ------------------------------------------------------------------- follow
Init ==
    /\ config \in [Lines : {2}, Bytes : {0, MaxCount},
                   FromStart : BOOLEAN, ZeroTerminated : {FALSE},
                   Follow : {TRUE}, FollowName : BOOLEAN,
                   MaxUnchangedStats : {0, 2}, Retry : {FALSE}, PID : {0}]
    /\ files \in {<<c>> : c \in {<<>>, <<97>>, <<97, LF>>}}
    /\ path = 1
    /\ alive = TRUE
    /\ input = <<>>
    /\ Fresh

Next ==
    \/ TailOpen \/ TailStat \/ TailRead
    \/ FdCancel \/ FdTick
    \/ FnInit \/ FnCancel \/ FnTick \/ FnRestat \/ FnOpen \/ FnRead
    \/ AppendByte \/ Truncate \/ RenameAway \/ Create \/ Cancel

Spec == Init /\ [][Next]_vars

\* Tail with follow on handles whose Seek may fail.
NextFaults == Next \/ FdSeekFails \/ FnSeekFails

SpecFaults == Init /\ [][NextFaults]_vars

\* --------------------------------------------------- follow, NUL-delimited
InitZero ==
    /\ config \in [Lines : {2}, Bytes : {0, MaxCount},
                   FromStart : {FALSE}, ZeroTerminated : {TRUE},
                   Follow : {TRUE}, FollowName : BOOLEAN,
                   MaxUnchangedStats : {0, 2}, Retry : {FALSE}, PID : {0}]
    /\ files \in {<<c>> : c \in {<<>>, <<97>>, <<97, NUL>>, <<97, NUL, LF>>,
                                 <<LF, NUL, 97, NUL>>}}
    /\ path = 1
    /\ alive = TRUE
    /\ input = <<>>
    /\ Fresh

SpecZero == InitZero /\ [][Next]_vars

\* -------------------------------------------------------- Tail, with Retry
\* The path may hold no file when Tail is called.
InitRetry ==
    /\ config \in [Lines : {2}, Bytes : {0, MaxCount},
                   FromStart : BOOLEAN, ZeroTerminated : {FALSE},
                   Follow : BOOLEAN, FollowName : BOOLEAN,
                   MaxUnchangedStats : {2}, Retry : BOOLEAN, PID : {0}]
    /\ files \in {<<c>> : c \in {<<97, LF>>, <<97, LF, 97>>}}
    /\ path \in {0, 1}
    /\ alive = TRUE
    /\ input = <<>>
    /\ Fresh

NextRetry ==
    \/ TailOpen \/ TailStat \/ TailRead
    \/ RetryOpen \/ RetryCancel \/ RetryTick \/ RetryStat \/ RetryRead \/ RetryReopen
    \/ FdCancel \/ FdTick
    \/ FnInit \/ FnCancel \/ FnTick \/ FnRestat \/ FnOpen \/ FnRead
    \/ AppendByte \/ Truncate \/ RenameAway \/ Create \/ Cancel

SpecRetry == InitRetry /\ [][NextRetry]_vars

\* Tail with Retry and, or not, a PID whose process is alive or gone, under a
\* context that can be cancelled.
InitWait ==
    /\ config \in [Lines : {2}, Bytes : {0, MaxCount},
                   FromStart : {FALSE}, ZeroTerminated : {FALSE},
                   Follow : BOOLEAN, FollowName : BOOLEAN,
                   MaxUnchangedStats : {2}, Retry : {TRUE}, PID : {0, 1}]
    /\ files = <<<<97, LF>>>>
    /\ path \in {0, 1}
    /\ alive \in BOOLEAN
    /\ input = <<>>
    /\ Fresh

NextWait ==
    \/ RetryOpen \/ RetryCancel \/ RetryTick \/ RetryStat \/ RetryRead \/ RetryReopen
    \/ FdCancel \/ FdTick
    \/ FnInit \/ FnCancel \/ FnTick \/ FnRestat \/ FnOpen \/ FnRead
    \/ AppendByte \/ Truncate \/ RenameAway \/ Create \/ Cancel \/ ProcessExit

SpecWait == InitWait /\ [][NextWait]_vars

\* ------------------------------------------- Tail with follow, scheduled fairly
\* Tail -c MaxCount -f on one file of one line, by descriptor or by name, with
\* Retry or not, the path holding the file or nothing.
LiveConfigs(pids) ==
    [Lines : {2}, Bytes : {MaxCount},
     FromStart : {FALSE}, ZeroTerminated : {FALSE},
     Follow : {TRUE}, FollowName : BOOLEAN,
     MaxUnchangedStats : {2}, Retry : BOOLEAN, PID : pids]

\* The steps of the goroutine that runs Tail, apart from the returns on
\* "<-ctx.Done()".
TailerWork ==
    \/ TailOpen \/ TailStat \/ TailRead
    \/ RetryOpen \/ RetryTick \/ RetryStat \/ RetryRead \/ RetryReopen
    \/ FdTick
    \/ FnInit \/ FnTick \/ FnRestat \/ FnOpen \/ FnRead

\* The "case <-ctx.Done()" branches of the three loops.
TailerCancel == RetryCancel \/ FdCancel \/ FnCancel

\* What the other processes do to the files.
WriterNext == AppendByte \/ Truncate \/ RenameAway \/ Create

\* Tail with a PID, under a context that is never cancelled.
InitPid ==
    /\ config \in LiveConfigs({1})
    /\ files = <<<<97, LF>>>>
    /\ path \in {0, 1}
    /\ alive \in BOOLEAN
    /\ input = <<>>
    /\ Fresh

NextPid == TailerWork \/ WriterNext \/ ProcessExit

\* The goroutine keeps running and the ticker keeps ticking: a step of Tail
\* that stays possible is taken.
SpecPid ==
    /\ InitPid
    /\ [][NextPid]_vars
    /\ WF_vars(TailerWork)

\* Tail without a PID, under a context that may be cancelled.
InitCancel ==
    /\ config \in LiveConfigs({0})
    /\ files = <<<<97, LF>>>>
    /\ path \in {0, 1}
    /\ alive = TRUE
    /\ input = <<>>
    /\ Fresh

NextCancel == TailerWork \/ TailerCancel \/ WriterNext \/ Cancel

\* As SpecPid, and a select that finds "ctx.Done()" ready again and again
\* takes that case in the end: Go chooses among the ready cases at random,
\* and Done, once closed, is ready at every select.
SpecCancel ==
    /\ InitCancel
    /\ [][NextCancel]_vars
    /\ WF_vars(TailerWork \/ TailerCancel)
    /\ SF_vars(RetryCancel)
    /\ SF_vars(FdCancel)
    /\ SF_vars(FnCancel)

\* ---------------------------------------------------------- pollingWatcher
\* Watch up to the start of the goroutine: the initial stat fails and Watch
\* returns the error and no channel, or it makes the channel, takes the size
\* and starts the goroutine.
WatchStartsAnyway ==
    /\ wpc = "start"
    /\ wpc' = "loop"
    /\ wChan' = "open"
    /\ wErr' = IF path = 0 THEN "error" ELSE "nil"
    /\ wLastSize' = IF path = 0 THEN 0 ELSE Len(files[path])
    /\ wStart' = wLastSize'
    /\ UNCHANGED <<wEvt, wSeen, wDelivered>>
    /\ UNCHANGED <<tailVars, cmdVars, argVars>>

Watch ==
    /\ wpc = "start"
    /\ IF path = 0
       THEN /\ wpc' = "failed"
            /\ wErr' = "error"
            /\ UNCHANGED <<wChan, wLastSize, wStart>>
       ELSE /\ wpc' = "loop"
            /\ wErr' = "nil"
            /\ wChan' = "open"
            /\ wLastSize' = Len(files[path])
            /\ wStart' = Len(files[path])
    /\ UNCHANGED <<wEvt, wSeen, wDelivered>>
    /\ UNCHANGED <<tailVars, cmdVars, argVars>>

\* The goroutine's outer select, "case <-ctx.Done(): return", and the
\* deferred close(events).
WatchCancel ==
    /\ wpc = "loop"
    /\ cancelled
    /\ wpc' = "ended"
    /\ wChan' = "closed"
    /\ UNCHANGED <<wLastSize, wEvt, wErr, wSeen, wStart, wDelivered>>
    /\ UNCHANGED <<tailVars, cmdVars, argVars>>

\* "if currentSize < lastSize { evt.Truncated = true }".
NewEvent(cur, last) == [Size |-> cur, Truncated |-> cur < last]

\* The goroutine's outer select, "case <-ticker.C:": the stat, the comparison
\* with lastSize, and the event it goes on to send. The history variable
\* wSeen records what the tick observed.
WatchTick ==
    /\ wpc = "loop"
    /\ IF path = 0
       THEN /\ wSeen' = "stat_failed"
            /\ UNCHANGED <<wpc, wEvt>>
       ELSE IF Len(files[path]) = wLastSize
            THEN /\ wSeen' = "same"
                 /\ UNCHANGED <<wpc, wEvt>>
            ELSE /\ wSeen' = "changed"
                 /\ wEvt' = NewEvent(Len(files[path]), wLastSize)
                 /\ wpc' = "send"
    /\ UNCHANGED <<wLastSize, wChan, wErr, wStart, wDelivered>>
    /\ UNCHANGED <<tailVars, cmdVars, argVars>>

\* A plausible slip: lastSize is not updated when the event is delivered.
WatchDeliverKeepsSize ==
    /\ wpc = "send"
    /\ wDelivered' = Append(wDelivered, wEvt)
    /\ wLastSize' = wLastSize
    /\ wpc' = "loop"
    /\ UNCHANGED <<wEvt, wChan, wErr, wSeen, wStart>>
    /\ UNCHANGED <<tailVars, cmdVars, argVars>>

\* The inner select, "case events <- evt: lastSize = currentSize": the
\* channel is unbuffered, so the send completes when the consumer receives.
WatchDeliver ==
    /\ wpc = "send"
    /\ wDelivered' = Append(wDelivered, wEvt)
    /\ wLastSize' = wEvt.Size
    /\ wpc' = "loop"
    /\ UNCHANGED <<wEvt, wChan, wErr, wSeen, wStart>>
    /\ UNCHANGED <<tailVars, cmdVars, argVars>>

\* A plausible slip: the return from the inner select does not close the
\* channel.
WatchSendCancelLeavesOpen ==
    /\ wpc = "send"
    /\ cancelled
    /\ wpc' = "ended"
    /\ wChan' = wChan
    /\ UNCHANGED <<wLastSize, wEvt, wErr, wSeen, wStart, wDelivered>>
    /\ UNCHANGED <<tailVars, cmdVars, argVars>>

\* The inner select, "case <-ctx.Done(): return", and the deferred
\* close(events).
WatchSendCancel ==
    /\ wpc = "send"
    /\ cancelled
    /\ wpc' = "ended"
    /\ wChan' = "closed"
    /\ UNCHANGED <<wLastSize, wEvt, wErr, wSeen, wStart, wDelivered>>
    /\ UNCHANGED <<tailVars, cmdVars, argVars>>

\* A watcher on a path that holds a file of up to two bytes, or nothing.
InitWatcher ==
    /\ config = [Lines |-> DefaultLines, Bytes |-> 0, FromStart |-> FALSE,
                 ZeroTerminated |-> FALSE, Follow |-> FALSE, FollowName |-> FALSE,
                 MaxUnchangedStats |-> 0, Retry |-> FALSE, PID |-> 0]
    /\ files \in {<<c>> : c \in {<<>>, <<97>>, <<97, LF>>}}
    /\ path \in {0, 1}
    /\ alive = TRUE
    /\ input = <<>>
    /\ Fresh

NextWatcher ==
    \/ Watch \/ WatchCancel \/ WatchTick \/ WatchDeliver \/ WatchSendCancel
    \/ WriterNext \/ Cancel

\* A select that finds "ctx.Done()" ready again and again takes that case in
\* the end; nothing is assumed of the ticker or of the consumer.
SpecWatcher ==
    /\ InitWatcher
    /\ [][NextWatcher]_vars
    /\ SF_vars(WatchCancel)
    /\ SF_vars(WatchSendCancel)

\* ------------------------------------------------------------- the command
MaxTargets == 2
MaxWrites == 2

\* The paths given on the command line.
Names == {"a", "b"}

Targets == 1..Len(cargs.paths)

\* What is written to the shared output: the header of a path, or one Write
\* of a target's tailer.
Header(i) == [kind |-> "header", target |-> i, name |-> cargs.paths[i]]
Chunk(i) == [kind |-> "chunk", target |-> i, name |-> cargs.paths[i]]

\* The tailer of a target, by what it does to its writer and returns: an
\* error at once for a path that cannot be opened, else its Write calls and
\* then nil.
TailFails(i) == cargs.missing[i]
TailEnds(i) == TailFails(i) \/ writesLeft[i] = 0

\* runTail: "if follow && multiFile { return runMultiFileFollow(...) }", which
\* starts one goroutine per path; else the sequential loop.
runTail ==
    /\ cpc = "start"
    /\ IF cargs.follow /\ Len(cargs.paths) > 1
       THEN /\ cpc' = "wait"
            /\ tpc' = [i \in Targets |-> "run"]
            /\ seqIndex' = seqIndex
       ELSE /\ cpc' = "seq"
            /\ seqIndex' = 1
            /\ tpc' = tpc
    /\ UNCHANGED <<cargs, writesLeft, mu, lastPrinted, cout, cerr, ret>>
    /\ UNCHANGED <<tailVars, watcherVars, argVars>>

\* The sequential loop: the header of the target, then its Tail is called.
SeqBegin ==
    /\ cpc = "seq"
    /\ seqIndex <= Len(cargs.paths)
    /\ tpc[seqIndex] = "idle"
    /\ cout' = IF cargs.showHeaders THEN Append(cout, Header(seqIndex)) ELSE cout
    /\ tpc' = [tpc EXCEPT ![seqIndex] = "run"]
    /\ UNCHANGED <<cargs, cpc, seqIndex, writesLeft, mu, lastPrinted, cerr, ret>>
    /\ UNCHANGED <<tailVars, watcherVars, argVars>>

\* The sequential loop: the tailer writes to the output.
SeqWrite ==
    /\ cpc = "seq"
    /\ seqIndex <= Len(cargs.paths)
    /\ tpc[seqIndex] = "run"
    /\ ~TailEnds(seqIndex)
    /\ cout' = Append(cout, Chunk(seqIndex))
    /\ writesLeft' = [writesLeft EXCEPT ![seqIndex] = @ - 1]
    /\ UNCHANGED <<cargs, cpc, seqIndex, tpc, mu, lastPrinted, cerr, ret>>
    /\ UNCHANGED <<tailVars, watcherVars, argVars>>

\* The sequential loop: "if err := tailer.Tail(ctx, output); err != nil
\* { fmt.Fprintf(cmd.ErrOrStderr(), ...) }", and on to the next path.
SeqReturn ==
    /\ cpc = "seq"
    /\ seqIndex <= Len(cargs.paths)
    /\ tpc[seqIndex] = "run"
    /\ TailEnds(seqIndex)
    /\ cerr' = IF TailFails(seqIndex) THEN Append(cerr, seqIndex) ELSE cerr
    /\ tpc' = [tpc EXCEPT ![seqIndex] = "done"]
    /\ seqIndex' = seqIndex + 1
    /\ UNCHANGED <<cargs, cpc, writesLeft, mu, lastPrinted, cout, ret>>
    /\ UNCHANGED <<tailVars, watcherVars, argVars>>

\* The sequential loop is over: "return nil".
SeqEnd ==
    /\ cpc = "seq"
    /\ seqIndex > Len(cargs.paths)
    /\ cpc' = "done"
    /\ ret' = "nil"
    /\ UNCHANGED <<cargs, seqIndex, tpc, writesLeft, mu, lastPrinted, cout, cerr>>
    /\ UNCHANGED <<tailVars, watcherVars, argVars>>

\* prefixWriter.Write: "pw.mu.Lock()".
PwLock(i) ==
    /\ cpc = "wait"
    /\ cargs.showHeaders
    /\ tpc[i] = "run"
    /\ ~TailEnds(i)
    /\ mu = 0
    /\ mu' = i
    /\ tpc' = [tpc EXCEPT ![i] = "locked"]
    /\ UNCHANGED <<cargs, cpc, seqIndex, writesLeft, lastPrinted, cout, cerr, ret>>
    /\ UNCHANGED <<tailVars, watcherVars, argVars>>

\* prefixWriter.Write: "if *pw.lastPrinted != pw.prefix { header;
\* *pw.lastPrinted = pw.prefix }".
PwHeader(i) ==
    /\ tpc[i] = "locked"
    /\ IF lastPrinted # cargs.paths[i]
       THEN /\ cout' = Append(cout, Header(i))
            /\ lastPrinted' = cargs.paths[i]
       ELSE UNCHANGED <<cout, lastPrinted>>
    /\ tpc' = [tpc EXCEPT ![i] = "checked"]
    /\ UNCHANGED <<cargs, cpc, seqIndex, writesLeft, mu, cerr, ret>>
    /\ UNCHANGED <<tailVars, watcherVars, argVars>>

\* prefixWriter.Write: "return pw.w.Write(p)".
PwWrite(i) ==
    /\ tpc[i] = "checked"
    /\ cout' = Append(cout, Chunk(i))
    /\ tpc' = [tpc EXCEPT ![i] = "written"]
    /\ UNCHANGED <<cargs, cpc, seqIndex, writesLeft, mu, lastPrinted, cerr, ret>>
    /\ UNCHANGED <<tailVars, watcherVars, argVars>>

\* prefixWriter.Write: the deferred "pw.mu.Unlock()".
PwUnlock(i) ==
    /\ tpc[i] = "written"
    /\ mu' = 0
    /\ writesLeft' = [writesLeft EXCEPT ![i] = @ - 1]
    /\ tpc' = [tpc EXCEPT ![i] = "run"]
    /\ UNCHANGED <<cargs, cpc, seqIndex, lastPrinted, cout, cerr, ret>>
    /\ UNCHANGED <<tailVars, watcherVars, argVars>>

\* runMultiFileFollow without headers: "var w io.Writer = output", the
\* tailer writes to the output itself.
PlainWrite(i) ==
    /\ cpc = "wait"
    /\ ~cargs.showHeaders
    /\ tpc[i] = "run"
    /\ ~TailEnds(i)
    /\ cout' = Append(cout, Chunk(i))
    /\ writesLeft' = [writesLeft EXCEPT ![i] = @ - 1]
    /\ UNCHANGED <<cargs, cpc, seqIndex, tpc, mu, lastPrinted, cerr, ret>>
    /\ UNCHANGED <<tailVars, watcherVars, argVars>>

\* The goroutine of a target: "tailer.Tail(ctx, w)" returns, its result is
\* dropped, and the deferred wg.Done() runs.
GoReturn(i) ==
    /\ cpc = "wait"
    /\ tpc[i] = "run"
    /\ TailEnds(i)
    /\ tpc' = [tpc EXCEPT ![i] = "done"]
    /\ UNCHANGED <<cargs, cpc, seqIndex, writesLeft, mu, lastPrinted, cout, cerr, ret>>
    /\ UNCHANGED <<tailVars, watcherVars, argVars>>

\* runMultiFileFollow: "wg.Wait(); return nil".
WaitDone ==
    /\ cpc = "wait"
    /\ \A i \in Targets : tpc[i] = "done"
    /\ cpc' = "done"
    /\ ret' = "nil"
    /\ UNCHANGED <<cargs, seqIndex, tpc, writesLeft, mu, lastPrinted, cout, cerr>>
    /\ UNCHANGED <<tailVars, watcherVars, argVars>>

\* The numbers of Write calls a tailer makes for whole lines: writeLine makes
\* one call per line, and in NUL mode two, the line and then its delimiter.
WriteCounts(zeroTerminated) ==
    {w \in 1..MaxWrites : zeroTerminated => w % 2 = 0}

\* An invocation with one to MaxTargets paths, each of which can be opened or
\* not, with or without follow, headers and -z.
InitCmd ==
    /\ \E n \in 1..MaxTargets :
          /\ cargs \in [paths : [1..n -> Names], missing : [1..n -> BOOLEAN],
                        follow : BOOLEAN, showHeaders : BOOLEAN,
                        zeroTerminated : BOOLEAN]
          /\ writesLeft \in [1..n -> WriteCounts(cargs.zeroTerminated)]
          /\ tpc = [i \in 1..n |-> "idle"]
    /\ cpc = "start"
    /\ seqIndex = 0
    /\ mu = 0
    /\ lastPrinted = ""
    /\ cout = <<>>
    /\ cerr = <<>>
    /\ ret = "none"
    /\ config = [Lines |-> DefaultLines, Bytes |-> 0, FromStart |-> FALSE,
                 ZeroTerminated |-> FALSE, Follow |-> FALSE, FollowName |-> FALSE,
                 MaxUnchangedStats |-> 0, Retry |-> FALSE, PID |-> 0]
    /\ files = <<>>
    /\ path = 0
    /\ alive = TRUE
    /\ input = <<>>
    /\ FreshTailer
    /\ NewWatcher
    /\ NoArgument

NextCmd ==
    \/ runTail \/ SeqBegin \/ SeqWrite \/ SeqReturn \/ SeqEnd
    \/ \E i \in Targets : PwLock(i)
    \/ \E i \in Targets : PwHeader(i)
    \/ \E i \in Targets : PwWrite(i)
    \/ \E i \in Targets : PwUnlock(i)
    \/ \E i \in Targets : PlainWrite(i)
    \/ \E i \in Targets : GoReturn(i)
    \/ WaitDone

SpecCmd == InitCmd /\ [][NextCmd]_vars

\* ================================================================== claims
\* The last n elements of a sequence, all of it when it has fewer.
LastN(seq, n) == SubSeq(seq, Max(Len(seq) - n, 0) + 1, Len(seq))

LineMode == config.Bytes = 0 /\ ~config.FromStart
Returned == pc = "done" /\ err = "nil"

\* C1: a last-N-lines read (N >= 1) of an input of L lines, through Tail or
\* through TailReader, writes all L lines in order when L <= N and exactly the
\* last N lines in order when L > N.
C1_LastNLines ==
    (Returned /\ LineMode /\ config.Lines >= 1) =>
        output = writeLines(config, LastN(ReadLines(config, files[1]), config.Lines))

\* C1 witness: a stream of more than N lines, not all alike, whose ring
\* wrapped to a slot other than 0, has been read.
C1_Witness ==
    /\ Returned /\ LineMode /\ call = "TailReader"
    /\ config.Lines = 2
    /\ LET all == ReadLines(config, input) IN
          /\ Len(all) = 3
          /\ all[2] # all[3]
          /\ output = writeLines(config, <<all[2], all[3]>>)

\* C2 as claimed: for every line count and delimiter mode, Tail on a seekable
\* file (backward scan when the file is larger than a chunk) writes the same
\* lines as a forward ring-buffer scan of the whole file.
C2_BackwardEqualsForward ==
    (Returned /\ LineMode /\ call = "Tail") =>
        output = writeLines(config, readLastNLinesForward(config, files[1]))

\* C8: on a seekable file of size S, last-N bytes writes the final min(N, S)
\* bytes, and from-byte-N writes the bytes at offsets N-1 .. S-1 (nothing when
\* N > S), unmodified and in order.
C8_ByteWindows ==
    (Returned /\ call = "Tail" /\ config.Bytes >= 1) =>
        LET c == files[1]
            S == Len(c)
            N == config.Bytes
        IN  output = IF config.FromStart
                     THEN [i \in 1..Max(S - (N - 1), 0) |-> c[(N - 1) + i]]
                     ELSE [i \in 1..Min(N, S) |-> c[S - Min(N, S) + i]]

\* C8 witness: from byte 2 of a file of 4 bytes, 3 bytes were written.
C8_Witness ==
    /\ Returned /\ call = "Tail"
    /\ config.Bytes = 2 /\ config.FromStart
    /\ Len(files[1]) = 4
    /\ Len(output) = 3

\* C9: tailReaderBytes keeps a buffer of exactly N bytes in which stream byte
\* k sits at index k mod N, for every way the reader splits the stream, and
\* at the end of the stream writes its final min(N, T) bytes in order.
C9_ReaderLastBytes ==
    (pc \in {"rd_loop", "done"} /\ call = "TailReader"
        /\ config.Bytes >= 1 /\ ~config.FromStart) =>
        LET N == config.Bytes
            T == Len(input)
        IN  /\ Len(buf) = N
            /\ total <= T
            /\ \A k \in Max(total - N, 0)..(total - 1) : buf[(k % N) + 1] = input[k + 1]
            /\ pc = "done" =>
                  /\ total = T
                  /\ output = [i \in 1..Min(N, T) |-> input[T - Min(N, T) + i]]

\* C9 witness: a stream longer than the buffer, ending at a slot other than 0,
\* has been written out.
C9_Witness ==
    /\ Returned /\ call = "TailReader"
    /\ config.Bytes = 3 /\ ~config.FromStart
    /\ total = 5
    /\ Len(output) = 3
    /\ output[1] # output[3]

\* C10: from-line-N writes exactly the lines whose 1-indexed ordinal is at
\* least N, in order: nothing when N > L, every line when N is 0 or 1.
C10_FromLineN ==
    (Returned /\ config.Bytes = 0 /\ config.FromStart) =>
        LET all == ReadLines(config, files[1])
            first == Max(config.Lines, 1)
        IN  output = writeLines(config,
                        [i \in 1..Max(Len(all) - (first - 1), 0) |-> all[(first - 1) + i]])

\* C10 witness: from line 2 of three lines, two lines were written.
C10_Witness ==
    /\ Returned /\ config.Bytes = 0 /\ config.FromStart
    /\ config.Lines = 2
    /\ LET all == ReadLines(config, files[1]) IN
          /\ Len(all) = 3
          /\ all[1] # all[2]
          /\ output = writeLines(config, <<all[2], all[3]>>)

\* C11 as claimed: for the same content and configuration, TailReader on a
\* stream writes exactly what Tail writes on a seekable file, in all four
\* modes.
C11_ReaderEqualsFile ==
    (Returned /\ call = "TailReader") =>
        output = Window(config, input, ByteStart(config, Len(input)))

\* C15 as claimed: with the line count unset (zero), a last-N-lines read
\* writes the last 10 lines of the input, all of them when there are fewer,
\* from a stream and from a seekable file of any size.
C15_DefaultCount ==
    (Returned /\ LineMode /\ config.Lines = 0) =>
        output = writeLines(config, LastN(ReadLines(config, files[1]), DefaultLines))

\* ------------------------------------------------------- line reader claims
\* The positions of the delimiter d in data, and the k-th of them.
DelimAt(data, d) == {i \in 1..Len(data) : data[i] = d}

KthDelim(data, d, k) ==
    CHOOSE i \in DelimAt(data, d) : Cardinality({j \in DelimAt(data, d) : j <= i}) = k

\* The bytes between delimiter k - 1 and delimiter k (the end of the data
\* when there is no delimiter k).
Segment(data, d, k) ==
    LET lo == IF k = 1 THEN 0 ELSE KthDelim(data, d, k - 1)
        hi == IF k <= Cardinality(DelimAt(data, d))
              THEN KthDelim(data, d, k) ELSE Len(data) + 1
    IN  SubSeq(data, lo + 1, hi - 1)

\* One segment per delimiter, and one more when data follows the last one.
NumSegments(data, d) ==
    Cardinality(DelimAt(data, d))
        + (IF Len(data) > 0 /\ data[Len(data)] # d THEN 1 ELSE 0)

\* data with every CR LF pair replaced by LF.
RECURSIVE ReplaceCRLF(_)
ReplaceCRLF(data) ==
    IF Len(data) = 0 THEN <<>>
    ELSE IF Len(data) >= 2 /\ data[1] = CR /\ data[2] = LF
         THEN <<LF>> \o ReplaceCRLF(From(data, 2))
         ELSE <<data[1]>> \o ReplaceCRLF(From(data, 1))

\* No line's content ends with CR before its CR LF ending.
NoCRBeforeCRLF(data) ==
    \A i \in 1..(Len(data) - 2) : ~(data[i] = CR /\ data[i + 1] = CR /\ data[i + 2] = LF)

ReadToEOF == call = "NewLineReader" /\ pc = "lr_eof"

\* C12 as claimed: with the newline delimiter, the lines read from an input
\* are the lines read from the same input with every CR LF replaced by LF.
C12_CRLFAsLF ==
    (ReadToEOF /\ ~config.ZeroTerminated) =>
        lrLines = ReadLines(config, ReplaceCRLF(input))

\* C12, amended: with the newline delimiter, for an input in which no line's
\* content ends with CR before a CR LF ending, the lines read are the lines
\* read from the input with every CR LF replaced by LF; each line is its
\* segment of the input less exactly one trailing CR when it has one, and
\* nothing else is removed.
C12_CRLFAsLF_Amended ==
    (ReadToEOF /\ ~config.ZeroTerminated) =>
        /\ NoCRBeforeCRLF(input) => lrLines = ReadLines(config, ReplaceCRLF(input))
        /\ \A k \in 1..Len(lrLines) :
              LET seg == Segment(input, LF, k) IN
              IF Len(seg) > 0 /\ seg[Len(seg)] = CR
              THEN lrLines[k] = SubSeq(seg, 1, Len(seg) - 1)
              ELSE lrLines[k] = seg

\* C12 witness: a CR LF line and an LF line were read to the same content.
C12_Witness ==
    /\ ReadToEOF /\ ~config.ZeroTerminated
    /\ input = <<97, CR, LF, 97, LF>>
    /\ lrLines = <<<<97>>, <<97>>>>

\* C13: read to the end of the source, however the source splits its data
\* into reads, the reader has returned one line per delimiter and one more
\* when data follows the last delimiter, each line being the bytes between
\* two delimiters (less a trailing CR in newline mode), empty where two
\* delimiters are adjacent; nothing for an empty input; then io.EOF.
C13_LinesAtEndOfStream ==
    ReadToEOF =>
        LET d == IF config.ZeroTerminated THEN NUL ELSE LF IN
        /\ err = "io.EOF"
        /\ scanStart = Len(input)
        /\ Len(lrLines) = NumSegments(input, d)
        /\ \A k \in 1..Len(lrLines) :
              lrLines[k] = IF config.ZeroTerminated
                           THEN Segment(input, d, k)
                           ELSE StripCR(Segment(input, d, k))

\* C13 witness: an empty line between two delimiters and an unterminated
\* last line were returned.
C13_Witness ==
    /\ ReadToEOF /\ config.ZeroTerminated
    /\ input = <<97, NUL, NUL, LF>>
    /\ lrLines = <<<<97>>, <<>>, <<LF>>>>

\* ------------------------------------------------------------ follow claims
FollowingByName == call = "Tail" /\ config.Follow /\ config.FollowName
FollowingByDescriptor == call = "Tail" /\ config.Follow /\ ~config.FollowName

\* A step of the follower, not of another process, that is not the return.
TickStep == UNCHANGED envVars /\ pc' # "done"

\* C3 as claimed: when by-name follow holds the identity of the file at the
\* path as last-known and has nothing left to read of it, and that file is
\* not the one the initial window was read from, every byte of it has been
\* read, from offset 0 on.
C3_ReplacementReadFromStart ==
    (FollowingByName /\ pc = "fn_loop"
        /\ path # 0 /\ window.id # 0 /\ path # window.id
        /\ lastFileInfo = path
        /\ lastSize = Len(files[path]) /\ lastPos = lastSize) =>
        \A o \in 0..(Len(files[path]) - 1) : o \in consumed[path]

\* C4: by-descriptor follow keeps the handle Tail opened whatever happens to
\* the path, each tick writes the lines found from Position on in the file
\* behind that handle, no other file is ever read, and nothing a stat of the
\* path would record is ever set.
C4_DescriptorKeepsHandle ==
    [][(FollowingByDescriptor /\ pc = "fd_loop") =>
        /\ pc' = "fd_loop" => f' = window.id
        /\ \A id \in 1..MaxFiles : id # window.id => consumed'[id] = {}
        /\ nameVars' = <<0, 0, 0, 0, 0>>
        /\ TickStep =>
              /\ output' = output \o
                    writeLines(config, ReadLines(config, From(files[window.id], lastPos)))
              /\ lastPos' = Max(lastPos, Len(files[window.id]))]_vars

\* C4 witness: another file with content of its own sits at the path, and a
\* tick has written what was appended to the file first opened.
C4_Witness ==
    /\ FollowingByDescriptor /\ pc = "fd_loop"
    /\ path # 0 /\ path # window.id
    /\ Len(files[path]) > 0
    /\ Len(files[window.id]) > window.len
    /\ lastPos = Len(files[window.id])
    /\ Len(output) > window.out

\* C5: a by-name tick that finds the same file at the path with a size below
\* the last-known size sets Position to 0 and adopts the size; when that size
\* is not 0 the tick goes on to open the path, and its read writes the lines
\* of the opened file from offset 0.
C5_TruncationRestarts ==
    [][/\ (FollowingByName /\ pc = "fn_loop" /\ TickStep
              /\ path # 0 /\ lastFileInfo = path
              /\ Len(files[path]) < lastSize) =>
            /\ lastPos' = 0
            /\ lastSize' = Len(files[path])
            /\ Len(files[path]) > 0 => (pc' = "fn_open" /\ tickEvent' = "truncated")
       /\ (FollowingByName /\ pc = "fn_read" /\ TickStep
              /\ tickEvent = "truncated") =>
            output' = output \o writeLines(config, ReadLines(config, files[f]))]_vars

\* C5 witness: a tick saw the file shrunk to a size that is not 0, and its
\* read has written that content from the start.
C5_Witness ==
    /\ FollowingByName /\ pc = "fn_loop"
    /\ tickEvent = "truncated"
    /\ path = window.id /\ lastFileInfo = path
    /\ window.pos > 1
    /\ Len(files[path]) > 0 /\ Len(files[path]) < window.pos
    /\ lastPos = Len(files[path])
    /\ 0 \in consumed[path]
    /\ Len(output) > window.out

\* C6 as claimed: in the line modes, while the file only receives appends,
\* once a tick has read up to the end of a file that ends with a delimiter,
\* what was written after the initial window is exactly the lines appended
\* after it, once each and in file order.
C6_ExactlyOnceInOrder ==
    (call = "Tail" /\ config.Follow /\ pc \in {"fd_loop", "fn_loop"}
        /\ config.Bytes = 0
        /\ ~disturbed /\ window.id # 0
        /\ Len(files[window.id]) > window.len
        /\ files[window.id][Len(files[window.id])] = LF
        /\ lastPos >= Len(files[window.id])) =>
        From(output, window.out) =
            writeLines(config, ReadLines(config, From(files[window.id], window.len)))

\* C7 as claimed: while the file only receives appends, a tick moves Position
\* only to just after a delimiter.
C7_PositionAfterDelimiter ==
    (call = "Tail" /\ config.Follow /\ pc \in {"fd_loop", "fn_loop"}
        /\ ~disturbed /\ window.id # 0
        /\ lastPos > window.pos /\ lastPos <= Len(files[window.id])) =>
        files[window.id][lastPos] = LF

\* ------------------------------------------------------ NUL-delimited claims
\* data as a sequence of d-terminated lines: unchanged when it is empty or
\* ends with d, with one d added otherwise.
Terminated(data, d) ==
    IF Len(data) = 0 \/ data[Len(data)] = d THEN data ELSE Append(data, d)

\* C14: with ZeroTerminated set, the initial line window is the file from an
\* offset that is 0 or just after a NUL, and every tick of either follow
\* loop writes the file from Position on, each with one NUL added when the
\* data does not end with one and with no other byte added, removed or
\* changed: lines are split on NUL only and ended by NUL; what is written of
\* a NUL-terminated file is a byte-for-byte part of it.
C14_ZeroTerminated ==
    [][config.ZeroTerminated =>
        /\ (pc = "tail_read" /\ TickStep /\ config.Bytes = 0) =>
              \E p \in 0..Len(files[f]) :
                 /\ p = 0 \/ files[f][p] = NUL
                 /\ output' = output \o Terminated(From(files[f], p), NUL)
        /\ (pc \in {"fd_loop", "fn_read"} /\ TickStep) =>
              output' = output \o Terminated(From(files[f], lastPos), NUL)]_vars

\* C14 witness: in NUL mode a tick has written a line that holds a newline
\* as content and ends with NUL.
C14_Witness ==
    /\ config.ZeroTerminated /\ config.Follow
    /\ pc \in {"fd_loop", "fn_loop"}
    /\ window.id # 0 /\ lastPos > window.pos
    /\ Len(output) >= window.out + 2
    /\ output[Len(output) - 1] = LF
    /\ output[Len(output)] = NUL

\* ------------------------------------------------------------ retry claims
\* A step of the tailer, not of another process.
TailerStep == UNCHANGED envVars

\* C16 as claimed, for the line modes: with Retry, Tail never returns an
\* error; nothing is written before an open has succeeded; it returns
\* without a window only when cancelled; and once the window is written it
\* follows, by descriptor on an open handle, or has returned nil.
C16_RetryNeverFails ==
    (call = "Tail" /\ config.Retry /\ config.Bytes = 0) =>
        /\ err # "error"
        /\ window.id = 0 => output = <<>>
        /\ (pc = "done" /\ window.id = 0) => cancelled
        /\ pc = "fd_loop" => f # 0

\* C17: on the retry path, the start offset computed from the stat, the
\* bytes written for the window and the Position taken after it are those
\* the direct path computes for the same configuration and file.
C17_RetryWindowEqualsDirect ==
    [][config.Retry =>
        /\ (pc = "retry_stat" /\ TailerStep /\ path # 0) =>
              startPos' = ByteStart(config, Len(files[path]))
        /\ (pc = "retry_read" /\ TailerStep) =>
              /\ output' = output \o Window(config, files[f], startPos)
              /\ lastPos' = WindowEnd(config, files[f], startPos)]_vars

\* C17 witness: the retry path has written the window from byte 3 of a file
\* of 3 bytes.
C17_Witness ==
    /\ call = "Tail" /\ config.Retry
    /\ config.Bytes = 3 /\ config.FromStart
    /\ window.id # 0 /\ window.len = 3
    /\ window.out = 1 /\ window.pos = 3

\* C18: without Retry, Tail called when the path cannot be opened returns an
\* error at once: nothing is written, no handle is open, no window was read,
\* and nothing happens after the return, with Follow set or not.
C18_OpenFailureIsFatal ==
    [][/\ (pc = "start" /\ ~config.Retry /\ path = 0 /\ call' = "Tail") =>
            /\ pc' = "done"
            /\ err' = "error"
            /\ output' = <<>>
            /\ f' = 0
            /\ window' = NoWindow
       /\ (pc = "done" /\ TailerStep) => UNCHANGED vars]_vars

\* C18 witness: Tail with Follow set and without Retry has returned an error
\* for a path that holds no file.
C18_Witness ==
    /\ call = "Tail" /\ ~config.Retry /\ config.Follow
    /\ pc = "done" /\ err = "error"
    /\ f = 0 /\ output = <<>> /\ window = NoWindow

\* ------------------------------------------------- PID and cancellation claims
InLoop == pc \in {"fd_loop", "fn_loop", "fn_restat", "fn_open", "fn_read"}

\* C19 as claimed: once the process is not alive, a follow loop performs no
\* further stat or read.
C19_NoWorkOnceDead ==
    [][(call = "Tail" /\ InLoop /\ PidExited /\ TailerStep) =>
          /\ output' = output
          /\ consumed' = consumed
          /\ currentSize' = currentSize /\ info' = info]_vars

\* C19, amended: no step of a follow loop ends in the wait for a tick with
\* the process not alive: the step that reaches the top of the loop (the
\* hand-off from the initial window, or the end of a tick's work) returns
\* nil with no handle open, whatever is left unread, and nothing runs after
\* the return; a process that exits during the wait is noticed at the end of
\* the next tick's work. So Tail with Follow and a PID that is not alive
\* returns after the initial window without being cancelled.
C19_PidExit ==
    /\ [][/\ (call' = "Tail" /\ TailerStep /\ vars' # vars /\ PidExited) =>
                pc' \notin {"fd_loop", "fn_loop"}
          /\ (PidExited /\ TailerStep /\ pc' = "done"
                /\ pc \in {"tail_read", "fn_init", "fd_loop", "fn_loop",
                           "fn_restat", "fn_open", "fn_read"}) =>
                (err' = "nil" /\ f' = 0)
          /\ (PidExited /\ TailerStep /\ pc = "tail_read") =>
                output' = output \o Window(config, files[f], startPos)
          /\ (pc = "done" /\ TailerStep) => UNCHANGED vars]_vars
    /\ (PidExited /\ window.id # 0) ~> (pc = "done")

\* C19 witness: with the process gone and the context not cancelled, Tail has
\* returned nil, no handle open, with content left unread.
C19_Witness ==
    /\ call = "Tail" /\ PidExited /\ ~cancelled
    /\ pc = "done" /\ err = "nil" /\ f = 0
    /\ window.id # 0
    /\ Len(files[window.id]) > lastPos

\* C20: once the context is cancelled Tail returns in the end; a return taken
\* by a loop (the wait for the file, either follow loop) after the
\* cancellation carries a nil error and leaves no handle open, and nothing
\* runs after the return.
C20_Cancellation ==
    /\ [][/\ (cancelled /\ TailerStep /\ pc' = "done"
                /\ pc \in {"retry_wait", "fd_loop", "fn_loop",
                           "fn_restat", "fn_open", "fn_read"}) =>
                (err' = "nil" /\ f' = 0)
          /\ (pc = "done" /\ TailerStep) => UNCHANGED vars]_vars
    /\ cancelled ~> (pc = "done")

\* C20 witness: a follow loop was running, the context was cancelled, and
\* Tail has returned nil with no handle open.
C20_Witness ==
    /\ call = "Tail" /\ config.Follow /\ config.PID = 0
    /\ cancelled /\ window.id # 0
    /\ pc = "done" /\ err = "nil" /\ f = 0

\* ------------------------------------------------------ tick failure claims
\* What C21 says of every failure but the by-name open and seek: a by-name
\* tick whose stat fails writes nothing and keeps Position, size, identity and
\* counter; a by-descriptor tick whose seek fails writes nothing and keeps
\* Position; no step of a follow loop returns an error, and a loop returns
\* only when the context is cancelled or the process is gone.
TickFailuresSkip ==
    /\ (call = "Tail" /\ pc = "fn_loop" /\ path = 0 /\ TailerStep) =>
          /\ output' = output /\ lastPos' = lastPos
          /\ lastSize' = lastSize /\ lastFileInfo' = lastFileInfo
          /\ unchangedCount' = unchangedCount
    /\ (call = "Tail" /\ pc = "fd_loop" /\ TailerStep
          /\ tickEvent' = "seek_failed") =>
          (output' = output /\ lastPos' = lastPos)
    /\ (call = "Tail" /\ InLoop /\ TailerStep) =>
          /\ err' # "error"
          /\ pc' = "done" => (cancelled \/ PidExited)
          /\ (pc' # "done" /\ (path = 0 \/ tickEvent' = "seek_failed")
                /\ pc \in {"fn_open", "fn_read", "fd_loop"}) =>
                pc' \in {"fd_loop", "fn_loop"}

\* The by-name tick fails at the open (the path holds nothing) or at the seek.
OpenOrSeekFails ==
    /\ call = "Tail" /\ TailerStep
    /\ \/ pc = "fn_open" /\ path = 0
       \/ pc = "fn_read" /\ tickEvent' = "seek_failed"

\* C21 as claimed: ... and a by-name tick whose open or seek fails writes
\* nothing and ends with the Position the tick began with.
C21_TickFailures ==
    [][/\ TickFailuresSkip
       /\ OpenOrSeekFails =>
            (output' = output /\ lastPos' = lastPos /\ ~tickMoved)]_vars

\* C21, amended: ... and a by-name tick whose open or seek fails writes
\* nothing and keeps the Position its replacement and truncation checks set
\* before the open: the Position the tick began with when it detected
\* neither, 0 when it detected one.
C21_TickFailures_Amended ==
    [][/\ TickFailuresSkip
       /\ OpenOrSeekFails =>
            /\ output' = output /\ lastPos' = lastPos
            /\ tickEvent = "none" => ~tickMoved
            /\ tickEvent # "none" => lastPos' = 0]_vars

\* C21 witness: a by-name tick detected a truncation or a replacement, set
\* Position back to 0, and then failed at its seek; nothing was written and
\* the loop waits for the next tick.
C21_Witness ==
    /\ call = "Tail" /\ pc = "fn_loop"
    /\ tickEvent = "seek_failed" /\ tickMoved
    /\ lastPos = 0 /\ f = 0 /\ err = "none"
    /\ Len(output) = window.out

\* ------------------------------------------------------------ handle claims
\* C22: when Tail has returned, on whichever path, no handle is open.
C22_HandlesClosed == (call = "Tail" /\ pc = "done") => f = 0

\* ----------------------------------------------------------- watcher claims
\* The size the next delivered event is measured against: the size of the
\* event delivered before it, the size at watch start for the first.
PrevSize ==
    IF wDelivered = <<>> THEN wStart ELSE wDelivered[Len(wDelivered)].Size

\* A step of the watcher: the files and the context stay as they are.
WatcherStep == UNCHANGED envVars

\* C23: every event delivered has a Size other than the size of the event
\* delivered before it (the size at watch start, for the first), and is
\* flagged Truncated exactly when its Size is the smaller of the two; a tick
\* that finds the size of the last delivered event, in the same file or in
\* another one at the path, sends nothing.
C23_WatcherEvents ==
    [][/\ Len(wDelivered') > Len(wDelivered) =>
            LET e == wDelivered'[Len(wDelivered')] IN
            /\ Len(wDelivered') = Len(wDelivered) + 1
            /\ e.Size # PrevSize
            /\ e.Truncated <=> (e.Size < PrevSize)
       /\ (wpc = "loop" /\ WatcherStep /\ path # 0
              /\ Len(files[path]) = PrevSize) =>
            (wpc' # "send" /\ wDelivered' = wDelivered /\ wEvt' = wEvt)]_vars

\* C23 witness: the consumer has received an event for growth and then one
\* for a truncation, and the tick after that found the size unchanged.
C23_Witness ==
    /\ Len(wDelivered) = 2
    /\ ~wDelivered[1].Truncated /\ wDelivered[1].Size > wStart
    /\ wDelivered[2].Truncated /\ wDelivered[2].Size < wDelivered[1].Size
    /\ wSeen = "same" /\ wpc = "loop"

\* C24: once the context is cancelled the channel of a running watcher is
\* closed in the end and the goroutine has ended, also when the goroutine is
\* blocked sending to a consumer that never receives; the channel is closed
\* exactly when the goroutine ends, and nothing is delivered after that.
C24_WatcherTermination ==
    /\ [][/\ (wChan' = "closed") <=> (wpc' = "ended")
          /\ wChan = "closed" => UNCHANGED watcherVars]_vars
    /\ (cancelled /\ wChan = "open") ~> (wChan = "closed" /\ wpc = "ended")

\* C24 witness: the goroutine was cancelled while blocked sending an event
\* that nobody received; the channel is closed.
C24_Witness ==
    /\ cancelled /\ wpc = "ended" /\ wChan = "closed"
    /\ wSeen = "changed" /\ wEvt.Size # wLastSize
    /\ wDelivered = <<>>

FollowingMany == cargs.follow /\ Len(cargs.paths) > 1 /\ cargs.showHeaders

\* The chunk written last before place k of the output, 0 when there is none.
ChunkBefore(k) ==
    IF \E j \in 1..(k - 1) : cout[j].kind = "chunk"
    THEN CHOOSE j \in 1..(k - 1) :
            /\ cout[j].kind = "chunk"
            /\ \A l \in (j + 1)..(k - 1) : cout[l].kind # "chunk"
    ELSE 0

\* C26: in concurrent multi-file follow every chunk of a target comes right
\* after the header of that target or after another chunk of that target; a
\* header is in the output exactly where the chunk written before came from
\* another target, or none was written yet, and is followed by the chunk it
\* was written for; and from the check of lastPrinted to the write of the
\* chunk the target holds the mutex, one target at a time.
C26_HeaderRule ==
    FollowingMany =>
       /\ \A k \in 1..Len(cout) :
             cout[k].kind = "chunk" =>
                /\ k > 1
                /\ \/ cout[k - 1] = Header(cout[k].target)
                   \/ cout[k - 1] = Chunk(cout[k].target)
                /\ (cout[k - 1].kind = "header") <=>
                      (ChunkBefore(k) = 0 \/ cout[ChunkBefore(k)].target # cout[k].target)
       /\ \A k \in 1..Len(cout) :
             cout[k].kind = "header" =>
                IF k < Len(cout) THEN cout[k + 1] = Chunk(cout[k].target)
                ELSE tpc[cout[k].target] = "checked"
       /\ \A i \in Targets :
             tpc[i] \in {"locked", "checked", "written"} <=> mu = i

\* C27: when the invocation has returned it has returned nil, every target
\* whose Tail failed has been reported once, no other target has been
\* reported, and the tailer of every other target has made all its writes.
C27_ErrorIsolation ==
    cpc = "done" =>
       /\ ret = "nil"
       /\ \A i \in Targets :
             /\ tpc[i] = "done"
             /\ TailFails(i) => Cardinality({k \in 1..Len(cerr) : cerr[k] = i}) = 1
             /\ ~TailFails(i) =>
                   /\ \A k \in 1..Len(cerr) : cerr[k] # i
                   /\ writesLeft[i] = 0

\* ---------------------------------------------------------- rotation claims
\* The file at the path is not the content the initial window was read from:
\* it is another file, or it has been truncated since.
Rotated ==
    /\ path # 0 /\ window.id # 0
    /\ path # window.id \/ path \in truncated

\* By-name follow has nothing to do: a tick that finds the path as it is
\* takes the no-change branch.
Settled ==
    /\ lastFileInfo = path
    /\ lastSize = Len(files[path])
    /\ lastPos = lastSize

\* A step of the by-name loop that ends a tick.
FnTickEnds ==
    /\ FollowingByName /\ TickStep
    /\ pc \in {"fn_loop", "fn_restat", "fn_open", "fn_read"}
    /\ pc' = "fn_loop"

\* C28: when a tick of by-name follow ends with nothing left to do at a path
\* whose file has been replaced or truncated since the initial window was
\* read, every byte the file now holds has been read by a tick, from offset
\* 0 on.
C28_RotationHandled ==
    [][(FnTickEnds /\ Rotated' /\ Settled') =>
          \A o \in 0..(Len(files[path]) - 1) : o \in consumed'[path]]_vars

\* C29: in by-descriptor follow no step lowers Position; a tick that finds
\* the file behind the handle shorter than Position writes nothing and leaves
\* Position where it is; and a tick on a file that has been truncated reads
\* no offset below the Position it started from, so what was written to the
\* file below that Position is never read.
C29_NoTruncationHandling ==
    [][(FollowingByDescriptor /\ pc = "fd_loop") =>
          /\ lastPos' >= lastPos
          /\ (TickStep /\ Len(files[f]) < lastPos) =>
                (output' = output /\ lastPos' = lastPos /\ consumed' = consumed)
          /\ (TickStep /\ f \in truncated) =>
                \A o \in consumed'[f] \ consumed[f] : o >= lastPos]_vars

\* C29 witness: the file was truncated while Position was above 0 and has
\* grown beyond Position again; a tick has read it from Position on, and the
\* bytes below Position have not been read.
C29_Witness ==
    /\ FollowingByDescriptor /\ pc = "fd_loop"
    /\ f = window.id /\ f \in truncated
    /\ window.pos > 0
    /\ consumed[f] # {}
    /\ \A o \in 0..(window.pos - 1) : o \notin consumed[f]
    /\ lastPos = Len(files[f])
    /\ Len(output) > window.out

\* ------------------------------------------------------------- mode claims
\* One-shot reads of a file that is left alone, with every pair of a line
\* count and a byte count, through Tail, tailWithRetry and TailReader.
InitModes ==
    /\ config \in [Lines : 0..MaxCount, Bytes : 0..MaxCount,
                   FromStart : BOOLEAN, ZeroTerminated : {FALSE},
                   Follow : {FALSE}, FollowName : {FALSE},
                   MaxUnchangedStats : {0}, Retry : BOOLEAN, PID : {0}]
    /\ \E c \in Contents(config.ZeroTerminated) :
          /\ files = <<c>>
          /\ input = c
    /\ path = 1
    /\ alive = TRUE
    /\ Fresh

NextModes ==
    \/ TailOpen \/ TailStat \/ TailRead
    \/ RetryOpen \/ RetryStat \/ RetryRead
    \/ TailReader \/ ReaderRead

SpecModes == InitModes /\ [][NextModes]_vars

\* The byte window of content c for a byte count n: the bytes from offset
\* n - 1 on, or the last n bytes.
ByteWindowOf(c, n, fromStart) ==
    IF fromStart THEN SubSeq(c, n, Len(c))
    ELSE SubSeq(c, Max(Len(c) - n, 0) + 1, Len(c))

\* Whether out is a line window of the lines all for a line count n: the
\* lines from line n on, or the last n lines (the last lines by a count the
\* reader chooses when n is 0).
IsLineWindowOf(out, cfg, all, n, fromStart) ==
    IF fromStart THEN out = writeLines(cfg, SubSeq(all, Max(n, 1), Len(all)))
    ELSE IF n >= 1 THEN out = writeLines(cfg, LastN(all, n))
    ELSE \E k \in 0..Len(all) : out = writeLines(cfg, LastN(all, k))

\* C30: what Tail, tailWithRetry and TailReader have written when they
\* return is, for a byte count above 0, the byte window of that count,
\* whatever the line count is, and for a byte count of 0 the line window of
\* the line count.
C30_ModePrecedence ==
    (Returned /\ call \in {"Tail", "TailReader"}) =>
        IF config.Bytes > 0
        THEN output = ByteWindowOf(files[1], config.Bytes, config.FromStart)
        ELSE IsLineWindowOf(output, config, ReadLines(config, files[1]),
                            config.Lines, config.FromStart)

\* C30 witness: with a line count of 2 and a byte count of 1 set together,
\* Tail has written the last byte of a file of two lines, not its lines.
C30_Witness ==
    /\ Returned /\ call = "Tail" /\ ~config.Retry
    /\ config.Lines = 2 /\ config.Bytes = 1 /\ ~config.FromStart
    /\ files[1] = <<97, LF, 97, LF>>
    /\ output = <<LF>>

WindowLinesMet == ReadLines(config, From(input, LineStart(call, config, input)))

\* The line window of an input all of whose lines can be read.
LineWindowRead ==
    IF call = "Tail" THEN Window(config, input, 0)
    ELSE writeLines(config, IF config.FromStart THEN readFromLineN(config, input)
                            ELSE readLastNLinesForward(config, input))

\* C32 as claimed: when the reader of the initial line window meets a line
\* of more than maxLineSize bytes, Tail (TailReader) returns an error and has
\* written nothing; when every line it meets has at most maxLineSize bytes,
\* the window is written with every line intact.
C32_LineTooLong ==
    (pc = "done" /\ call \in {"Tail", "TailReader"} /\ config.Bytes = 0) =>
        IF \E i \in 1..Len(WindowLinesMet) : Len(WindowLinesMet[i]) > maxLineSize
        THEN err = "error" /\ output = <<>>
        ELSE err = "nil" /\ output = LineWindowRead

\* ------------------------------------------------------- bytes mode, follow
\* C33 as claimed: in bytes mode with follow, while the file only receives
\* appends, once a tick has read up to the end of the file what was written
\* after the initial window is exactly the bytes appended after it (the
\* window starting inside the file, so that no appended byte lies before it).
C33_BytesFollowVerbatim ==
    (call = "Tail" /\ config.Follow /\ pc \in {"fd_loop", "fn_loop"}
        /\ config.Bytes > 0
        /\ ~disturbed /\ window.id # 0 /\ window.pos <= window.len
        /\ lastPos >= Len(files[window.id])) =>
        From(output, window.out) = From(files[window.id], window.len)

\* ------------------------------------------------------------ parseNumArg
\* The longest argument parsed.
MaxArgLen == 4

\* The characters arguments are made of: signs, digits, suffix letters in
\* both cases and a letter that is in no suffix.
ArgChars == {"+", "-", "1", "2", "k", "K", "b", "B", "M", "G", "x"}

Args == UNION {[1..n -> ArgChars] : n \in 0..MaxArgLen}

HasPrefix(s, prefix) ==
    Len(s) >= Len(prefix) /\ SubSeq(s, 1, Len(prefix)) = prefix

HasSuffix(s, suffix) ==
    Len(s) >= Len(suffix) /\ SubSeq(s, Len(s) - Len(suffix) + 1, Len(s)) = suffix

\* strings.ToUpper, on one character.
UpperChar(c) ==
    CASE c = "k" -> "K"
      [] c = "b" -> "B"
      [] c = "m" -> "M"
      [] c = "g" -> "G"
      [] c = "x" -> "X"
      [] OTHER -> c

ToUpper(s) == [i \in 1..Len(s) |-> UpperChar(s[i])]

Digits == {"0", "1", "2", "3", "4", "5", "6", "7", "8", "9"}

DigitValue(c) ==
    CASE c = "0" -> 0 [] c = "1" -> 1 [] c = "2" -> 2 [] c = "3" -> 3 [] c = "4" -> 4
      [] c = "5" -> 5 [] c = "6" -> 6 [] c = "7" -> 7 [] c = "8" -> 8 [] c = "9" -> 9

RECURSIVE DecimalValue(_)
DecimalValue(s) ==
    IF s = <<>> THEN 0
    ELSE 10 * DecimalValue(SubSeq(s, 1, Len(s) - 1)) + DigitValue(s[Len(s)])

\* An int64 as a sign and a magnitude in five limbs to the base 10^4, least
\* significant first.  The arguments parsed here have fewer than nine digits,
\* so that no product reaches 2^63.
Limb == 10000

Int64(neg, mag) == [neg |-> neg /\ mag # <<0, 0, 0, 0, 0>>, mag |-> mag]

\* "n * multiplier" of parseNumArg, for 0 <= abs < 10^8 and mult < 10^12.
Mul64(neg, abs, mult) ==
    LET n0 == abs % Limb
        n1 == abs \div Limb
        m0 == mult % Limb
        m1 == (mult \div Limb) % Limb
        m2 == mult \div (Limb * Limb)
        k0 == n0 * m0
        k1 == (k0 \div Limb) + n0 * m1 + n1 * m0
        k2 == (k1 \div Limb) + n0 * m2 + n1 * m1
        k3 == (k2 \div Limb) + n1 * m2
    IN  Int64(neg, <<k0 % Limb, k1 % Limb, k2 % Limb, k3 % Limb, k3 \div Limb>>)

\* strconv.ParseInt(s, 10, 64): an optional sign, then one or more decimal
\* digits; anything else is a syntax error.
ParseInt(s) ==
    LET signed == s # <<>> /\ s[1] \in {"+", "-"}
        digits == IF signed THEN Tail(s) ELSE s
    IN  IF digits # <<>> /\ \A i \in 1..Len(digits) : digits[i] \in Digits
        THEN [ok |-> TRUE, neg |-> signed /\ s[1] = "-", abs |-> DecimalValue(digits)]
        ELSE [ok |-> FALSE, neg |-> FALSE, abs |-> 0]

\* The suffix table of parseNumArg, in its order.
suffixes ==
    << [suffix |-> <<"G", "B">>, mult |-> 1000 * 1000 * 1000],
       [suffix |-> <<"M", "B">>, mult |-> 1000 * 1000],
       [suffix |-> <<"K", "B">>, mult |-> 1000],
       [suffix |-> <<"G">>, mult |-> 1024 * 1024 * 1024],
       [suffix |-> <<"M">>, mult |-> 1024 * 1024],
       [suffix |-> <<"K">>, mult |-> 1024],
       [suffix |-> <<"B">>, mult |-> 512] >>

\* The first entry of the table that is a suffix of upper, 0 when none is.
FirstSuffix(upper) ==
    LET hits == {i \in 1..Len(suffixes) : HasSuffix(upper, suffixes[i].suffix)}
    IN  IF hits = {} THEN 0 ELSE CHOOSE i \in hits : \A j \in hits : i <= j

ParseError ==
    [done |-> TRUE, n |-> Int64(FALSE, <<0, 0, 0, 0, 0>>), fromStart |-> FALSE, err |-> TRUE]

parseNumArg(s) ==
    IF s = <<>>
    THEN [done |-> TRUE, n |-> Int64(FALSE, <<0, 0, 0, 0, 0>>), fromStart |-> FALSE,
          err |-> FALSE]
    ELSE LET fromStart == HasPrefix(s, <<"+">>)
             s1 == IF fromStart \/ HasPrefix(s, <<"-">>) THEN Tail(s) ELSE s
             suf == FirstSuffix(ToUpper(s1))
             multiplier == IF suf = 0 THEN 1 ELSE suffixes[suf].mult
             s2 == IF suf = 0 THEN s1
                   ELSE SubSeq(s1, 1, Len(s1) - Len(suffixes[suf].suffix))
             n == ParseInt(s2)
         IN  IF ~n.ok THEN ParseError
             ELSE [done |-> TRUE, n |-> Mul64(n.neg, n.abs, multiplier),
                   fromStart |-> fromStart, err |-> FALSE]

\* One call of parseNumArg, on the argument given to -n or -c.
ParseNumArg ==
    /\ ~parsed.done
    /\ parsed' = parseNumArg(numArg)
    /\ UNCHANGED <<tailVars, watcherVars, cmdVars, numArg>>

InitArgs ==
    /\ numArg \in Args
    /\ parsed = [done |-> FALSE, n |-> Int64(FALSE, <<0, 0, 0, 0, 0>>),
                 fromStart |-> FALSE, err |-> FALSE]
    /\ config = [Lines |-> DefaultLines, Bytes |-> 0, FromStart |-> FALSE,
                 ZeroTerminated |-> FALSE, Follow |-> FALSE, FollowName |-> FALSE,
                 MaxUnchangedStats |-> 0, Retry |-> FALSE, PID |-> 0]
    /\ files = <<>>
    /\ path = 0
    /\ alive = TRUE
    /\ input = <<>>
    /\ FreshTailer /\ NewWatcher /\ NoInvocation

NextArgs == ParseNumArg

SpecArgs == InitArgs /\ [][NextArgs]_vars

\* The multiplier the size suffixes stand for: b, K, M, G, KB, MB, GB in either
\* case, and no suffix.
SuffixMultiplier(suffix) ==
    LET u == ToUpper(suffix)
    IN  CASE u = <<>> -> 1
          [] u = <<"B">> -> 512
          [] u = <<"K">> -> 1024
          [] u = <<"M">> -> 1024 * 1024
          [] u = <<"G">> -> 1024 * 1024 * 1024
          [] u = <<"K", "B">> -> 1000
          [] u = <<"M", "B">> -> 1000 * 1000
          [] u = <<"G", "B">> -> 1000 * 1000 * 1000
          [] OTHER -> 0

\* The ways of reading s as an optional sign, decimal digits and an optional
\* suffix: the lengths of the sign and of the suffix.
WellFormed(s) ==
    {d \in (0..1) \X (0..2) :
        /\ d[1] + d[2] < Len(s)
        /\ d[1] = 1 => s[1] \in {"+", "-"}
        /\ \A i \in (d[1] + 1)..(Len(s) - d[2]) : s[i] \in Digits
        /\ SuffixMultiplier(SubSeq(s, Len(s) - d[2] + 1, Len(s))) # 0}

\* C34 as claimed: an optional sign, digits and an optional suffix give
\* digits x multiplier, fromStart exactly for a leading '+'; the empty string
\* gives (0, false, no error); every other text gives an error.
C34_ParseNumArg ==
    parsed.done =>
        IF numArg = <<>>
        THEN parsed = [done |-> TRUE, n |-> Int64(FALSE, <<0, 0, 0, 0, 0>>),
                       fromStart |-> FALSE, err |-> FALSE]
        ELSE IF WellFormed(numArg) = {}
        THEN parsed.err
        ELSE \A d \in WellFormed(numArg) :
                /\ ~parsed.err
                /\ parsed.fromStart = (numArg[1] = "+")
                /\ parsed.n =
                     Mul64(FALSE,
                           DecimalValue(SubSeq(numArg, d[1] + 1, Len(numArg) - d[2])),
                           SuffixMultiplier(SubSeq(numArg, Len(numArg) - d[2] + 1,
                                                   Len(numArg))))

\* ----------------------------------------------------- handles during follow
\* Where followByName is when it holds no handle: before its loop, waiting for
\* a tick, at the extra stat and before the open.
FnHandleFree == {"fn_init", "fn_loop", "fn_restat", "fn_open"}

\* C35: by-name follow holds a handle only between the open and the end of the
\* same tick's read (the read and the failed seek both close it), and opens
\* one only on a tick that found something to read; by-descriptor follow holds
\* the handle it was given, unchanged, until the step that returns, which
\* closes it.
C35_HandleDiscipline ==
    [][/\ pc' \in FnHandleFree => f' = 0
       /\ (pc = "fn_read" /\ pc' # "fn_read") => f' = 0
       /\ (pc \in FnHandleFree \cup {"fn_read"} /\ f = 0 /\ f' # 0) =>
             /\ pc = "fn_open" /\ pc' = "fn_read"
             /\ ~(currentSize = lastSize /\ currentSize = lastPos)
       /\ (pc = "fn_loop" /\ pc' = "fn_open") =>
             ~(currentSize' = lastSize' /\ currentSize' = lastPos')
       /\ pc' = "fd_loop" => f' # 0
       /\ (pc = "fd_loop" /\ pc' = "fd_loop") => f' = f
       /\ (pc = "fd_loop" /\ pc' = "done") => f' = 0]_vars

\* A by-name follow is waiting for a tick with no handle open, after a tick
\* that read and wrote and a later one whose seek failed.
C35_Witness ==
    /\ pc = "fn_loop" /\ f = 0
    /\ tickEvent = "seek_failed"
    /\ Len(output) > window.out

\* --------------------------------------------------- baseline at hand-off
\* C36 as claimed: the identity followByName first compares against is that of
\* the file the initial window was read from, and its first size is a size of
\* that file.
C36_IdentityBaseline ==
    [][(call = "Tail" /\ pc = "fn_init" /\ pc' # "fn_init") =>
          /\ lastFileInfo' = window.id
          /\ lastSize' = Len(files[window.id])]_vars

\* ------------------------------------------------- lines on the shared output
\* What the Write at place k of the output carries: a tailer writes a line
\* and its delimiter in one call, or in NUL mode the line in one call and the
\* delimiter in the next.
PartOf(k) ==
    LET nth == Cardinality({j \in 1..k : /\ cout[j].kind = "chunk"
                                         /\ cout[j].target = cout[k].target})
    IN  IF ~cargs.zeroTerminated THEN "line"
        ELSE IF nth % 2 = 1 THEN "content" ELSE "terminator"

\* C37 as claimed: in concurrent follow, in both delimiter modes, whatever is
\* written after the content of a line is the terminator of that line.
C37_LineAtomicity ==
    (cargs.follow /\ Len(cargs.paths) > 1) =>
        \A k \in 1..(Len(cout) - 1) :
            (cout[k].kind = "chunk" /\ PartOf(k) = "content") =>
                cout[k + 1] = Chunk(cout[k].target)

\* ---------------------------------------------------- exits of the retry wait
\* Where tailWithRetry is while no open has succeeded: on entry, at the open of
\* an iteration and in the select of the wait.
RetryWaiting == {"start", "retry_open", "retry_wait"}

ReaderStays ==
    /\ pc' = pc /\ err' = err /\ lrLines' = lrLines
    /\ <<scanStart, scanEnd, scanEOF>>' = <<scanStart, scanEnd, scanEOF>>

\* A step that puts a new reader at the offset the last one read to.
ReaderReplaced ==
    /\ pc = "lr_eof" /\ pc' = "lr_split"
    /\ lrLines' = <<>> /\ err' = "none" /\ lrCalls' = 0
    /\ scanStart' = scanEnd /\ scanEnd' = scanEnd /\ scanEOF' = FALSE

\* C39: once ReadLine has returned io.EOF or a scan error, a later call on
\* that reader returns the same error and no line, whatever the source has
\* received since; what is appended is read by the new reader a tick builds at
\* the offset the last one read to.
C39_StickyEnd ==
    [][(pc \in {"lr_eof", "lr_err"}) => (ReaderStays \/ ReaderReplaced)]_vars

\* A reader returned io.EOF, the source has grown since, and ReadLine has
\* been called on the reader again.
C39_Witness ==
    /\ pc = "lr_eof" /\ err = "io.EOF"
    /\ lrCalls > 0
    /\ Len(input) > scanEnd

====
